---- MODULE Spec2Model ----
(***************************************************************************)
(* Alignment classifier of dungeonchurch-oracle                            *)
(* (src/scripts/alignment_classifier.py): stated-alignment extraction,     *)
(* cached external classification, behavioral aggregation, ceiling, drift  *)
(* and propagation, with the orchestrator classify_alignments as a state   *)
(* machine.                                                                *)
(*                                                                         *)
(* Numbers.  The program computes with Python floats.  Here a float is a   *)
(* fixed-point number in thousandths (1.0 is Scale), and every product     *)
(* and quotient rounds to the nearest thousandth, as a float operation     *)
(* rounds to the nearest representable value.  min, max, comparison,       *)
(* addition and negation are exact, as they are on floats of this size.    *)
(*                                                                         *)
(* Absent values.  Python's None is the record None; a dictionary key      *)
(* that is not present is the record Absent.                               *)
(***************************************************************************)
EXTENDS Integers, Sequences, FiniteSets, TLC

VARIABLES
    pc,                 \* position of the running function
    api_key,            \* TRUE iff an API key is configured (truthy)
    nodes,              \* the node list, in list order
    links,              \* the link list, in list order
    cache,              \* the in-memory cache dict
    disk,               \* the cache file: None (no file) or the dict last written
    idx,                \* index of the next element of the running for-loop
    target_alignments,  \* classify_alignments' lookup of stated alignments
    iteration,          \* propagate_alignments' round number (0-based)
    changes,            \* propagate_alignments' assignments in this round
    svcCalls,           \* number of external-service invocations so far
    paid,               \* results the external service has returned so far
    seeds,              \* ids of the nodes aligned when propagation started
    args,               \* arguments of the calls made outside a pipeline run
    out                 \* what each of these calls returned

vars == <<pc, api_key, nodes, links, cache, disk, idx, target_alignments,
          iteration, changes, svcCalls, paid, seeds, args, out>>

None == [none |-> TRUE]
Absent == [absent |-> TRUE]

\* dict.get(key, default)
Get(d, key, default) == IF key \in DOMAIN d THEN d[key] ELSE default

(***************************************************************************)
(* Fixed-point arithmetic                                                  *)
(***************************************************************************)
Scale == 10 * 100

Abs(x) == IF x < 0 THEN -x ELSE x
Min2(a, b) == IF b < a THEN b ELSE a
Max2(a, b) == IF b > a THEN b ELSE a

\* n / d rounded to the nearest integer, d > 0
RoundDiv(n, d) == (2 * n + d) \div (2 * d)
FMul(a, b) == RoundDiv(a * b, Scale)
FDiv(a, b) == IF b > 0 THEN RoundDiv(a * Scale, b) ELSE -RoundDiv(a * Scale, -b)

ClampMissing(lo, hi, x) == x

\* max(lo, min(hi, x))
Clamp(lo, hi, x) == Max2(lo, Min2(hi, x))

RECURSIVE ISqrtIn(_, _, _)
\* the largest r in lo..hi with r * r <= n, by bisection
ISqrtIn(n, lo, hi) ==
    IF lo >= hi THEN lo
    ELSE LET mid == (lo + hi + 1) \div 2
         IN  IF mid * mid <= n THEN ISqrtIn(n, mid, hi) ELSE ISqrtIn(n, lo, mid - 1)
\* x ** 0.5 on thousandths: sqrt(x / Scale) * Scale, rounded down
FSqrt(x) == ISqrtIn(x * Scale, 0, 4 * Scale)

(***************************************************************************)
(* Ceiling constraint and drift                                            *)
(***************************************************************************)
apply_ceiling_constraint_loose(stated, behavioral) ==
    IF stated = None THEN behavioral
    ELSE [law_chaos |-> behavioral.law_chaos, good_evil |-> behavioral.good_evil]

apply_ceiling_constraint(stated, behavioral) ==
    IF stated = None THEN behavioral
    ELSE [good_evil |->
              IF stated.good_evil >= 0
              THEN Min2(behavioral.good_evil, stated.good_evil)
              ELSE behavioral.good_evil,
          law_chaos |->
              IF stated.law_chaos >= 0
              THEN Min2(behavioral.law_chaos, stated.law_chaos)
              ELSE behavioral.law_chaos]

max_distance == 2830

\* calculate_drift, had the distance been taken on the law axis alone
calculate_drift_one_axis(stated, final) ==
    IF stated = None \/ DOMAIN stated = {} THEN 0
    ELSE LET law_diff == Abs(stated.law_chaos - final.law_chaos)
             distance == FSqrt(FMul(law_diff, law_diff))
         IN  Min2(Scale, FDiv(distance, max_distance))

\* "not stated" is true of None and of the empty dict
calculate_drift(stated, final) ==
    IF stated = None \/ DOMAIN stated = {} THEN 0
    ELSE LET law_diff == Abs(stated.law_chaos - final.law_chaos)
             good_diff == Abs(stated.good_evil - final.good_evil)
             distance == FSqrt(FMul(law_diff, law_diff) + FMul(good_diff, good_diff))
         IN  Min2(Scale, FDiv(distance, max_distance))

(***************************************************************************)
(* Behavioral aggregation                                                  *)
(***************************************************************************)
min_weight == 100
moral_adjustment_factor == 300
impact_scale == 500
HarmTypes == {"killed", "destroyed", "harmed"}

\* weight of one relationship, from its valences as the classifier returned them
RelWeight(rel) ==
    LET w == RoundDiv(Abs(Get(rel, "moral_valence", 0))
                      + Abs(Get(rel, "order_valence", 0)), 2)
    IN  IF w < min_weight THEN min_weight ELSE w

\* RelMoral, had the target adjustment been made for every type of relationship
RelMoralAnyType(rel, targets) ==
    LET moral == Get(rel, "moral_valence", 0)
    IN  IF "target_id" \in DOMAIN rel /\ rel.target_id \in DOMAIN targets
        THEN moral - FMul(Get(Get(targets[rel.target_id], "final", <<>>),
                              "good_evil", 0),
                          moral_adjustment_factor)
        ELSE moral

\* moral valence of one relationship after the target adjustment
RelMoral(rel, targets) ==
    LET moral == Get(rel, "moral_valence", 0)
    IN  IF "target_id" \in DOMAIN rel /\ rel.target_id \in DOMAIN targets
           /\ Get(rel, "type", "") \in HarmTypes
        THEN moral - FMul(Get(Get(targets[rel.target_id], "final", <<>>),
                              "good_evil", 0),
                          moral_adjustment_factor)
        ELSE moral

RECURSIVE Accumulate(_, _, _)
\* the three running totals after the first k relationships
Accumulate(rels, targets, k) ==
    IF k = 0 THEN [moral |-> 0, order |-> 0, weight |-> 0]
    ELSE LET acc == Accumulate(rels, targets, k - 1)
             rel == rels[k]
         IN  IF rel = None \/ DOMAIN rel = {} THEN acc
             ELSE [moral |-> acc.moral + FMul(RelMoral(rel, targets), RelWeight(rel)),
                   order |-> acc.order
                             + FMul(Get(rel, "order_valence", 0), RelWeight(rel)),
                   weight |-> acc.weight + RelWeight(rel)]

calculate_behavioral_alignment(stated, relationships, targets) ==
    LET base == IF stated # None /\ DOMAIN stated # {}
                THEN [law_chaos |-> stated.law_chaos, good_evil |-> stated.good_evil]
                ELSE [law_chaos |-> 0, good_evil |-> 0]
        tot == Accumulate(relationships, targets, Len(relationships))
    IN  IF relationships = <<>> THEN base
        ELSE IF tot.weight > 0
        THEN [law_chaos |-> Clamp(-Scale, Scale,
                  base.law_chaos + FMul(FDiv(tot.order, tot.weight), impact_scale)),
              good_evil |-> Clamp(-Scale, Scale,
                  base.good_evil + FMul(FDiv(tot.moral, tot.weight), impact_scale))]
        ELSE [law_chaos |-> Clamp(-Scale, Scale, base.law_chaos),
              good_evil |-> Clamp(-Scale, Scale, base.good_evil)]

(***************************************************************************)
(* Cache store and the two external classifiers                            *)
(*                                                                         *)
(* A text is a sequence of symbols (words and sentence marks); a title is  *)
(* a sequence of words.  SHA-256 is taken to be injective: a key is the    *)
(* text that was hashed.  The external service answers with any response   *)
(* record, or fails (the call raises, or its text is not the JSON          *)
(* expected).  Timestamps and the free-text fields (summary, reasoning)    *)
(* are left out.  A write of the cache file either succeeds, leaving the   *)
(* file equal to the dict it was given, or fails with the error swallowed. *)
(***************************************************************************)
content_hash_chars == 2000
context_hash_chars == 500

Prefix(text, n) == SubSeq(text, 1, Min2(Len(text), n))

\* compute_content_hash, had it hashed the whole content
compute_content_hash_whole(content) == content

compute_content_hash(content) == Prefix(content, content_hash_chars)

compute_relationship_hash(source_id, target_id, context) ==
    <<source_id, target_id, Prefix(context, context_hash_chars)>>

EmptyCache == [entities |-> <<>>, relationships |-> <<>>]

\* load_cache: the file's dict, or the empty structure when there is no file
load_cache(file) == IF file = None THEN EmptyCache ELSE file

\* The cache file after save_cache(c) on the file given: the dict dumped,
\* or the file as it was when the write raised IOError (lines 91-92: the
\* error is printed and the caller goes on)
save_cache_dropped(c, file, written) == file
save_cache(c, file, written) == IF written THEN c ELSE file

\* d[key] = value, had the assignment been left out
PutNothing(d, key, value) == d
\* d[key] = value, had it replaced the dict by one with this key alone
PutOnly(d, key, value) == [k \in {key} |-> value]
\* d[key] = value
Put(d, key, value) == [k \in DOMAIN d \cup {key} |-> IF k = key THEN value ELSE d[k]]

Failures == {[error |-> "raises"], [error |-> "malformed"]}
\* the except branch, had it been taken for an exception of the request alone
IsRaise(resp) == "error" \in DOMAIN resp /\ resp.error = "raises"
IsFailure(resp) == "error" \in DOMAIN resp

default_entity_confidence == 500

\* classify_entity_llm, had it gone to the service without looking in the cache
classify_entity_llm_nolookup(title, content, key, c, resp) ==
    IF ~key \/ content = <<>>
    THEN [ret |-> None, cache |-> c, called |-> FALSE, saved |-> FALSE]
    ELSE IF IsFailure(resp)
    THEN [ret |-> None, cache |-> c, called |-> TRUE, saved |-> FALSE]
    ELSE LET alignment ==
                 [law_chaos |-> Clamp(-Scale, Scale, Get(resp, "law_chaos", 0)),
                  good_evil |-> Clamp(-Scale, Scale, Get(resp, "good_evil", 0)),
                  confidence |-> Clamp(0, Scale,
                      Get(resp, "confidence", default_entity_confidence)),
                  source |-> "llm"]
         IN  [ret |-> alignment,
              cache |-> [c EXCEPT !.entities =
                            Put(@, compute_content_hash(content),
                                [alignment |-> alignment, title |-> title])],
              called |-> TRUE, saved |-> TRUE]

\* What one call of classify_entity_llm returns and does:
\*   ret     the value returned,
\*   cache   the cache dict afterwards,
\*   called  whether the external service was invoked,
\*   saved   whether save_cache was invoked.
classify_entity_llm(title, content, key, c, resp) ==
    IF ~key \/ content = <<>>
    THEN [ret |-> None, cache |-> c, called |-> FALSE, saved |-> FALSE]
    ELSE LET content_hash == compute_content_hash(content)
         IN  IF content_hash \in DOMAIN c.entities
             THEN [ret |-> Get(c.entities[content_hash], "alignment", None),
                   cache |-> c, called |-> FALSE, saved |-> FALSE]
             ELSE IF IsFailure(resp)
             THEN [ret |-> None, cache |-> c, called |-> TRUE, saved |-> FALSE]
             ELSE LET alignment ==
                          [law_chaos |-> Clamp(-Scale, Scale, Get(resp, "law_chaos", 0)),
                           good_evil |-> Clamp(-Scale, Scale, Get(resp, "good_evil", 0)),
                           confidence |-> Clamp(0, Scale,
                               Get(resp, "confidence", default_entity_confidence)),
                           source |-> "llm"]
                  IN  [ret |-> alignment,
                       cache |-> [c EXCEPT !.entities =
                                     Put(@, content_hash,
                                         [alignment |-> alignment, title |-> title])],
                       called |-> TRUE, saved |-> TRUE]

\* The response, had order_valence been stored without the clamp
ClampedRelationshipMoralOnly(resp) ==
    [k \in DOMAIN resp \cup {"moral_valence", "order_valence"} |->
        IF k = "moral_valence" THEN Clamp(-Scale, Scale, Get(resp, k, 0))
        ELSE IF k = "order_valence" THEN Get(resp, k, 0)
        ELSE resp[k]]

\* The response with both valences validated and clamped
ClampedRelationship(resp) ==
    [k \in DOMAIN resp \cup {"moral_valence", "order_valence"} |->
        IF k \in {"moral_valence", "order_valence"}
        THEN Clamp(-Scale, Scale, Get(resp, k, 0))
        ELSE resp[k]]

\* As classify_entity_llm.  The dict returned is the very object the cache
\* holds under rel_hash: ref names it, so that a caller's writes to it are
\* writes to the cache entry.
classify_relationship_llm(source_title, target_title, context, key, c, resp) ==
    IF ~key
    THEN [ret |-> None, ref |-> None, cache |-> c, called |-> FALSE, saved |-> FALSE]
    ELSE LET rel_hash == compute_relationship_hash(source_title, target_title, context)
         IN  IF rel_hash \in DOMAIN c.relationships
             THEN [ret |-> Get(c.relationships[rel_hash], "result", None),
                   ref |-> [key |-> rel_hash],
                   cache |-> c, called |-> FALSE, saved |-> FALSE]
             ELSE IF IsFailure(resp)
             THEN [ret |-> None, ref |-> None, cache |-> c,
                   called |-> TRUE, saved |-> FALSE]
             ELSE LET result == ClampedRelationship(resp)
                  IN  [ret |-> result,
                       ref |-> [key |-> rel_hash],
                       cache |-> [c EXCEPT !.relationships =
                                     Put(@, rel_hash,
                                         [result |-> result,
                                          source |-> source_title,
                                          target |-> target_title])],
                       called |-> TRUE, saved |-> TRUE]

(***************************************************************************)
(* Text: stated-alignment extraction and link context                      *)
(*                                                                         *)
(* re.IGNORECASE is Lower on every symbol; a pattern of the table is the   *)
(* sequence of words it matches (\\s+ between two words is their being      *)
(* consecutive symbols, \\b is the symbol boundary).                        *)
(***************************************************************************)
LowerTable ==
    [LG |-> "lg", NG |-> "ng", CG |-> "cg", LN |-> "ln", TN |-> "tn", N |-> "n",
     CN |-> "cn", LE |-> "le", NE |-> "ne", CE |-> "ce",
     Lawful |-> "lawful", Neutral |-> "neutral", Chaotic |-> "chaotic",
     True |-> "true", Good |-> "good", Evil |-> "evil",
     Alaric |-> "alaric", Bree |-> "bree", Corwin |-> "corwin",
     Dunmere |-> "dunmere", Edda |-> "edda", Lord |-> "lord", Vex |-> "vex",
     He |-> "he", She |-> "she", Alignment |-> "alignment"]

Lower(w) == IF w \in DOMAIN LowerTable THEN LowerTable[w] ELSE w
LowerText(text) == [i \in 1..Len(text) |-> Lower(text[i])]

\* re.search(pattern, text, re.IGNORECASE): the first place where a
\* sequence of words occurs in a text, 0 when it does not
MatchesAt(text, words, i) ==
    /\ i + Len(words) - 1 <= Len(text)
    /\ \A j \in 1..Len(words) : Lower(text[i + j - 1]) = Lower(words[j])

Search(text, words) ==
    LET hits == {i \in 1..Len(text) : MatchesAt(text, words, i)}
    IN  IF hits = {} THEN 0 ELSE CHOOSE i \in hits : \A j \in hits : i <= j

ALIGNMENT_PATTERNS ==
    << [words |-> <<"lawful", "good">>,     law_chaos |-> Scale,  good_evil |-> Scale],
       [words |-> <<"neutral", "good">>,    law_chaos |-> 0,      good_evil |-> Scale],
       [words |-> <<"chaotic", "good">>,    law_chaos |-> -Scale, good_evil |-> Scale],
       [words |-> <<"lawful", "neutral">>,  law_chaos |-> Scale,  good_evil |-> 0],
       [words |-> <<"true", "neutral">>,    law_chaos |-> 0,      good_evil |-> 0],
       [words |-> <<"chaotic", "neutral">>, law_chaos |-> -Scale, good_evil |-> 0],
       [words |-> <<"lawful", "evil">>,     law_chaos |-> Scale,  good_evil |-> -Scale],
       [words |-> <<"neutral", "evil">>,    law_chaos |-> 0,      good_evil |-> -Scale],
       [words |-> <<"chaotic", "evil">>,    law_chaos |-> -Scale, good_evil |-> -Scale],
       [words |-> <<"lg">>, law_chaos |-> Scale,  good_evil |-> Scale],
       [words |-> <<"ng">>, law_chaos |-> 0,      good_evil |-> Scale],
       [words |-> <<"cg">>, law_chaos |-> -Scale, good_evil |-> Scale],
       [words |-> <<"ln">>, law_chaos |-> Scale,  good_evil |-> 0],
       [words |-> <<"tn">>, law_chaos |-> 0,      good_evil |-> 0],
       [words |-> <<"n">>,  law_chaos |-> 0,      good_evil |-> 0],
       [words |-> <<"cn">>, law_chaos |-> -Scale, good_evil |-> 0],
       [words |-> <<"le">>, law_chaos |-> Scale,  good_evil |-> -Scale],
       [words |-> <<"ne">>, law_chaos |-> 0,      good_evil |-> -Scale],
       [words |-> <<"ce">>, law_chaos |-> -Scale, good_evil |-> -Scale] >>

\* extract_stated_alignment, had the table held the nine full names alone
extract_stated_alignment_full_names(content) ==
    LET hits == {p \in 1..9 : Search(content, ALIGNMENT_PATTERNS[p].words) > 0}
    IN  IF content = <<>> \/ hits = {} THEN None
        ELSE LET first == CHOOSE p \in hits : \A q \in hits : p <= q
             IN  [law_chaos |-> ALIGNMENT_PATTERNS[first].law_chaos,
                  good_evil |-> ALIGNMENT_PATTERNS[first].good_evil,
                  confidence |-> Scale,
                  source |-> "explicit"]

\* extract_stated_alignment, had the match that comes first in the text won
extract_stated_alignment_leftmost(content) ==
    LET hits == {p \in 1..Len(ALIGNMENT_PATTERNS) :
                    Search(content, ALIGNMENT_PATTERNS[p].words) > 0}
        At(p) == Search(content, ALIGNMENT_PATTERNS[p].words)
    IN  IF content = <<>> \/ hits = {} THEN None
        ELSE LET first == CHOOSE p \in hits :
                              \A q \in hits : At(p) < At(q) \/ (At(p) = At(q) /\ p <= q)
             IN  [law_chaos |-> ALIGNMENT_PATTERNS[first].law_chaos,
                  good_evil |-> ALIGNMENT_PATTERNS[first].good_evil,
                  confidence |-> Scale,
                  source |-> "explicit"]

extract_stated_alignment(content) ==
    LET hits == {p \in 1..Len(ALIGNMENT_PATTERNS) :
                    Search(content, ALIGNMENT_PATTERNS[p].words) > 0}
    IN  IF content = <<>> \/ hits = {} THEN None
        ELSE LET first == CHOOSE p \in hits : \A q \in hits : p <= q
             IN  [law_chaos |-> ALIGNMENT_PATTERNS[first].law_chaos,
                  good_evil |-> ALIGNMENT_PATTERNS[first].good_evil,
                  confidence |-> Scale,
                  source |-> "explicit"]

context_chars == 200
min_first_word_len == 3
SentenceMarks == {".", "!", "?"}

RECURSIVE SplitSentences(_)
\* re.split(r'[.!?]\s+', text): a mark that ends the text splits nothing
SplitSentences(text) ==
    LET marks == {i \in 1..(Len(text) - 1) : text[i] \in SentenceMarks}
    IN  IF marks = {} THEN <<text>>
        ELSE LET i == CHOOSE m \in marks : \A n \in marks : m <= n
             IN  <<SubSeq(text, 1, i - 1)>>
                 \o SplitSentences(SubSeq(text, i + 1, Len(text)))

\* None, or the text around the first mention of the target
extract_link_context(content, target_title) ==
    IF content = <<>> \/ target_title = <<>> THEN None
    ELSE LET first_word == <<target_title[1]>>
             usable == Len(target_title[1]) > min_first_word_len
             full == Search(content, target_title)
             at == IF full > 0 THEN full
                   ELSE IF usable THEN Search(content, first_word) ELSE 0
             matched == IF full > 0 THEN Len(target_title) ELSE 1
             start == Max2(0, (at - 1) - context_chars)
             end == Min2(Len(content), (at - 1) + matched + context_chars)
             context == SubSeq(content, start + 1, end)
             sentences == SplitSentences(context)
             good == {k \in 1..Len(sentences) :
                         \/ Search(sentences[k], target_title) > 0
                         \/ usable /\ Search(sentences[k], first_word) > 0}
         IN  IF at = 0 THEN None
             ELSE IF good # {}
             THEN [text |-> sentences[CHOOSE k \in good : \A m \in good : k <= m]]
             ELSE [text |-> context]

(***************************************************************************)
(* Propagation                                                             *)
(***************************************************************************)
max_iterations == 10
propagated_confidence == 300
default_neighbor_confidence == 500

\* node.get(field): None when the key is not there
NodeGet(node, field) == IF node[field] = Absent THEN None ELSE node[field]

RECURSIVE AdjacencyOf(_, _, _)
\* adjacency.get(id, []) after the first k links were read
AdjacencyOf(ls, id, k) ==
    IF k = 0 THEN <<>>
    ELSE AdjacencyOf(ls, id, k - 1)
         \o (IF ls[k].source = id THEN <<ls[k].target>> ELSE <<>>)
         \o (IF ls[k].target = id THEN <<ls[k].source>> ELSE <<>>)

\* the node of the list with this id
NodeById(ns, id) == ns[CHOOSE i \in 1..Len(ns) : ns[i].id = id]

RECURSIVE NeighborAlignmentsDirectOnly(_, _, _)
\* neighbor_alignments, had it left out the neighbors propagation aligned
NeighborAlignmentsDirectOnly(ns, neighbors, k) ==
    IF k = 0 THEN <<>>
    ELSE LET align == NodeGet(NodeById(ns, neighbors[k]), "alignment")
         IN  NeighborAlignmentsDirectOnly(ns, neighbors, k - 1)
             \o (IF align # None /\ Get(align, "final", None) # None
                    /\ align.source # "propagated"
                 THEN <<[law_chaos |-> align.final.law_chaos,
                         good_evil |-> align.final.good_evil,
                         confidence |->
                             Get(align, "confidence", default_neighbor_confidence)]>>
                 ELSE <<>>)

RECURSIVE NeighborAlignmentsNeutral(_, _, _)
\* neighbor_alignments, had it taken a neighbor without alignment as neutral
NeighborAlignmentsNeutral(ns, neighbors, k) ==
    IF k = 0 THEN <<>>
    ELSE LET align == NodeGet(NodeById(ns, neighbors[k]), "alignment")
         IN  NeighborAlignmentsNeutral(ns, neighbors, k - 1)
             \o (IF align # None /\ Get(align, "final", None) # None
                 THEN <<[law_chaos |-> align.final.law_chaos,
                         good_evil |-> align.final.good_evil,
                         confidence |->
                             Get(align, "confidence", default_neighbor_confidence)]>>
                 ELSE <<[law_chaos |-> 0, good_evil |-> 0,
                         confidence |-> default_neighbor_confidence]>>)

RECURSIVE NeighborAlignments(_, _, _)
\* the list neighbor_alignments built from the first k neighbors
NeighborAlignments(ns, neighbors, k) ==
    IF k = 0 THEN <<>>
    ELSE LET align == NodeGet(NodeById(ns, neighbors[k]), "alignment")
         IN  NeighborAlignments(ns, neighbors, k - 1)
             \o (IF align # None /\ Get(align, "final", None) # None
                 THEN <<[law_chaos |-> align.final.law_chaos,
                         good_evil |-> align.final.good_evil,
                         confidence |->
                             Get(align, "confidence", default_neighbor_confidence)]>>
                 ELSE <<>>)

\* the term a neighbor adds to each of the three sums (lines 463-466)
Term(a, which) ==
    CASE which = "weight" -> a.confidence
      [] which = "law" -> FMul(a.law_chaos, a.confidence)
      [] which = "good" -> FMul(a.good_evil, a.confidence)

RECURSIVE SumOver(_, _, _)
\* sum(term for a in list), over the first k elements
SumOver(list, which, k) ==
    IF k = 0 THEN 0 ELSE SumOver(list, which, k - 1) + Term(list[k], which)

PropagatedRecord(avg_law, avg_good) ==
    [stated |-> None,
     behavioral |-> [law_chaos |-> avg_law, good_evil |-> avg_good],
     final |-> [law_chaos |-> avg_law, good_evil |-> avg_good],
     confidence |-> propagated_confidence,
     drift |-> 0,
     source |-> "propagated"]

\* PropagateOne, had the loop not skipped the nodes that have an alignment
PropagateOneNoSkip(ns, ls, i) ==
    LET node == ns[i]
        neighbor_alignments ==
            LET neighbors == AdjacencyOf(ls, node.id, Len(ls))
            IN  NeighborAlignments(ns, neighbors, Len(neighbors))
        n == Len(neighbor_alignments)
        total_weight == SumOver(neighbor_alignments, "weight", n)
    IN  IF neighbor_alignments # <<>> /\ total_weight > 0
        THEN PropagatedRecord(
                 FDiv(SumOver(neighbor_alignments, "law", n), total_weight),
                 FDiv(SumOver(neighbor_alignments, "good", n), total_weight))
        ELSE node.alignment

\* What the body of the inner loop leaves in node["alignment"] for the
\* node at position i: the node's alignment as it was when nothing is assigned
PropagateOne(ns, ls, i) ==
    LET node == ns[i]
        neighbor_alignments ==
            LET neighbors == AdjacencyOf(ls, node.id, Len(ls))
            IN  NeighborAlignments(ns, neighbors, Len(neighbors))
        n == Len(neighbor_alignments)
        total_weight == SumOver(neighbor_alignments, "weight", n)
    IN  IF NodeGet(node, "alignment") # None THEN node.alignment
        ELSE IF neighbor_alignments # <<>> /\ total_weight > 0
        THEN PropagatedRecord(
                 FDiv(SumOver(neighbor_alignments, "law", n), total_weight),
                 FDiv(SumOver(neighbor_alignments, "good", n), total_weight))
        ELSE node.alignment

(***************************************************************************)
(* The orchestrator classify_alignments, one action per loop body          *)
(***************************************************************************)
alignment_collection_ids == {"npc", "faction"}

EntityResponses ==
    { [law_chaos |-> -1500, good_evil |-> -400, confidence |-> 0],
      [law_chaos |-> 600, good_evil |-> 2000, confidence |-> 1500],
      [good_evil |-> -700] }

RelationshipResponses ==
    { [type |-> "killed", moral_valence |-> -1000, order_valence |-> 0],
      [type |-> "allied", moral_valence |-> 800, order_valence |-> 1700],
      [type |-> "neutral"] }

default_llm_confidence == 700
default_behavioral_confidence == 500
drift_confidence_factor == 300

\* the test of lines 531 and 648, had it let every collection pass
EligibleAny(node) == node.collectionId = node.collectionId
Eligible(node) == node.collectionId \in alignment_collection_ids

\* the position after the loop body at idx ran: the next element, or the
\* statement after the loop
Advance(len, after) ==
    IF idx < len THEN idx' = idx + 1 /\ pc' = pc ELSE idx' = 1 /\ pc' = after

\* lines 529-568, had the service been asked first and the patterns only
\* when it gave nothing
ClassifyNodeServiceFirst ==
    /\ pc = "classify_nodes"
    /\ \E resp \in EntityResponses \cup Failures, written \in BOOLEAN :
          LET node == nodes[idx]
              explicit == extract_stated_alignment(node.content)
              r == classify_entity_llm(node.title, node.content, api_key, cache, resp)
          IN  IF ~Eligible(node)
              THEN /\ nodes' = [nodes EXCEPT ![idx].alignment = None]
                   /\ UNCHANGED <<cache, disk, svcCalls, paid>>
              ELSE /\ nodes' = [nodes EXCEPT ![idx].stated_alignment =
                                    IF r.ret # None THEN r.ret ELSE explicit]
                   /\ cache' = r.cache
                   /\ disk' = IF r.saved THEN save_cache(r.cache, disk, written) ELSE disk
                   /\ svcCalls' = svcCalls + (IF r.called THEN 1 ELSE 0)
                   /\ paid' = IF r.called /\ r.ret # None
                              THEN paid \cup {[kind |-> "entities",
                                               key |-> compute_content_hash(node.content),
                                               result |-> r.ret,
                                               written |-> written]}
                              ELSE paid
    /\ Advance(Len(nodes), IF api_key /\ links # <<>> THEN "classify_links" ELSE "collect")
    /\ UNCHANGED <<api_key, links, target_alignments, iteration, changes, seeds, args, out>>

\* lines 529-568
\* lines 529-568, had a run without key still looked in the cache
ClassifyNodeCacheWithoutKey ==
    /\ pc = "classify_nodes"
    /\ \E resp \in EntityResponses \cup Failures, written \in BOOLEAN :
          LET node == nodes[idx]
              explicit == extract_stated_alignment(node.content)
              r == classify_entity_llm(node.title, node.content, api_key, cache, resp)
          IN  IF ~Eligible(node)
              THEN /\ nodes' = [nodes EXCEPT ![idx].alignment = None]
                   /\ UNCHANGED <<cache, disk, svcCalls, paid>>
              ELSE IF explicit # None
              THEN /\ nodes' = [nodes EXCEPT ![idx].stated_alignment = explicit]
                   /\ UNCHANGED <<cache, disk, svcCalls, paid>>
              ELSE IF api_key
              THEN /\ nodes' = [nodes EXCEPT ![idx].stated_alignment = r.ret]
                   /\ cache' = r.cache
                   /\ disk' = IF r.saved THEN save_cache(r.cache, disk, written) ELSE disk
                   /\ svcCalls' = svcCalls + (IF r.called THEN 1 ELSE 0)
                   /\ paid' = IF r.called /\ r.ret # None
                              THEN paid \cup {[kind |-> "entities",
                                               key |-> compute_content_hash(node.content),
                                               result |-> r.ret,
                                               written |-> written]}
                              ELSE paid
              ELSE /\ nodes' = [nodes EXCEPT ![idx].stated_alignment =
                                 classify_entity_llm(node.title, node.content, TRUE,
                                                     cache, [error |-> "raises"]).ret]
                   /\ UNCHANGED <<cache, disk, svcCalls, paid>>
    /\ Advance(Len(nodes), IF api_key /\ links # <<>> THEN "classify_links" ELSE "collect")
    /\ UNCHANGED <<api_key, links, target_alignments, iteration, changes, seeds, args, out>>

ClassifyNode ==
    /\ pc = "classify_nodes"
    /\ \E resp \in EntityResponses \cup Failures, written \in BOOLEAN :
          LET node == nodes[idx]
              explicit == extract_stated_alignment(node.content)
              r == classify_entity_llm(node.title, node.content, api_key, cache, resp)
          IN  IF ~Eligible(node)
              THEN /\ nodes' = [nodes EXCEPT ![idx].alignment = None]
                   /\ UNCHANGED <<cache, disk, svcCalls, paid>>
              ELSE IF explicit # None
              THEN /\ nodes' = [nodes EXCEPT ![idx].stated_alignment = explicit]
                   /\ UNCHANGED <<cache, disk, svcCalls, paid>>
              ELSE IF api_key
              THEN /\ nodes' = [nodes EXCEPT ![idx].stated_alignment = r.ret]
                   /\ cache' = r.cache
                   /\ disk' = IF r.saved THEN save_cache(r.cache, disk, written) ELSE disk
                   /\ svcCalls' = svcCalls + (IF r.called THEN 1 ELSE 0)
                   /\ paid' = IF r.called /\ r.ret # None
                              THEN paid \cup {[kind |-> "entities",
                                               key |-> compute_content_hash(node.content),
                                               result |-> r.ret,
                                               written |-> written]}
                              ELSE paid
              ELSE /\ nodes' = [nodes EXCEPT ![idx].stated_alignment = None]
                   /\ UNCHANGED <<cache, disk, svcCalls, paid>>
    /\ Advance(Len(nodes), IF api_key /\ links # <<>> THEN "classify_links" ELSE "collect")
    /\ UNCHANGED <<api_key, links, target_alignments, iteration, changes, seeds, args, out>>

\* the relationship dict a link holds: the object of the cache it refers to
RelationshipOf(c, link) == c.relationships[link.relationship.key].result

\* rel["source_id"] = source_id; rel["target_id"] = target_id
WithIds(rel, source_id, target_id) ==
    [k \in DOMAIN rel \cup {"source_id", "target_id"} |->
        IF k = "source_id" THEN source_id
        ELSE IF k = "target_id" THEN target_id
        ELSE rel[k]]

\* node_map.get(id) finds a node
HasNode(ns, id) == \E i \in 1..Len(ns) : ns[i].id = id

\* ClassifyLink, had the loop not skipped the links of an ineligible source
ClassifyLinkAnySource ==
    /\ pc = "classify_links"
    /\ \E resp \in RelationshipResponses \cup Failures, written \in BOOLEAN :
          LET link == links[idx]
              source_node == NodeById(nodes, link.source)
              target_node == NodeById(nodes, link.target)
              context == extract_link_context(source_node.content, target_node.title)
              r == classify_relationship_llm(source_node.title, target_node.title,
                                             context.text, api_key, cache, resp)
          IN  IF ~HasNode(nodes, link.source) \/ ~HasNode(nodes, link.target)
                 \/ context = None
              THEN UNCHANGED <<links, cache, disk, svcCalls, paid>>
              ELSE /\ disk' = IF r.saved THEN save_cache(r.cache, disk, written) ELSE disk
                   /\ svcCalls' = svcCalls + (IF r.called THEN 1 ELSE 0)
                   /\ paid' = IF r.called /\ r.ret # None
                              THEN paid \cup {[kind |-> "relationships",
                                               key |-> compute_relationship_hash(
                                                           source_node.title,
                                                           target_node.title, context.text),
                                               result |-> r.ret,
                                               written |-> written]}
                              ELSE paid
                   /\ IF r.ret # None
                      THEN /\ cache' = [r.cache EXCEPT
                                           !.relationships[r.ref.key].result =
                                               WithIds(@, link.source, link.target)]
                           /\ links' = [links EXCEPT ![idx].relationship = r.ref]
                      ELSE cache' = r.cache /\ UNCHANGED links
    /\ Advance(Len(links), "collect")
    /\ UNCHANGED <<api_key, nodes, target_alignments, iteration, changes, seeds, args, out>>

\* lines 586-626
ClassifyLink ==
    /\ pc = "classify_links"
    /\ \E resp \in RelationshipResponses \cup Failures, written \in BOOLEAN :
          LET link == links[idx]
              source_node == NodeById(nodes, link.source)
              target_node == NodeById(nodes, link.target)
              context == extract_link_context(source_node.content, target_node.title)
              r == classify_relationship_llm(source_node.title, target_node.title,
                                             context.text, api_key, cache, resp)
          IN  IF ~HasNode(nodes, link.source) \/ ~HasNode(nodes, link.target)
                 \/ ~Eligible(source_node) \/ context = None
              THEN UNCHANGED <<links, cache, disk, svcCalls, paid>>
              ELSE /\ disk' = IF r.saved THEN save_cache(r.cache, disk, written) ELSE disk
                   /\ svcCalls' = svcCalls + (IF r.called THEN 1 ELSE 0)
                   /\ paid' = IF r.called /\ r.ret # None
                              THEN paid \cup {[kind |-> "relationships",
                                               key |-> compute_relationship_hash(
                                                           source_node.title,
                                                           target_node.title, context.text),
                                               result |-> r.ret,
                                               written |-> written]}
                              ELSE paid
                   /\ IF r.ret # None
                      THEN /\ cache' = [r.cache EXCEPT
                                           !.relationships[r.ref.key].result =
                                               WithIds(@, link.source, link.target)]
                           /\ links' = [links EXCEPT ![idx].relationship = r.ref]
                      ELSE cache' = r.cache /\ UNCHANGED links
    /\ Advance(Len(links), "collect")
    /\ UNCHANGED <<api_key, nodes, target_alignments, iteration, changes, seeds, args, out>>

\* lines 637-642
CollectStated ==
    /\ pc = "collect"
    /\ target_alignments' =
          LET withStated == {i \in 1..Len(nodes) :
                                NodeGet(nodes[i], "stated_alignment") # None}
          IN  [id \in {nodes[i].id : i \in withStated} |->
                  [final |-> NodeById(nodes, id).stated_alignment]]
    /\ pc' = "behavioral"
    /\ idx' = 1
    /\ UNCHANGED <<api_key, nodes, links, cache, disk, iteration, changes,
                   svcCalls, paid, seeds, args, out>>

RECURSIVE NodeRelationships(_, _, _, _)
\* lines 654-658: the relationships of the first k links that leave the node
NodeRelationships(ls, c, id, k) ==
    IF k = 0 THEN <<>>
    ELSE NodeRelationships(ls, c, id, k - 1)
         \o (IF ls[k].source = id /\ ls[k].relationship # Absent
             THEN <<RelationshipOf(c, ls[k])>>
             ELSE <<>>)

\* lines 651-684: the AlignmentResult of a node that is not skipped
DirectAlignment(node, ls, c, targets) ==
    LET stated == NodeGet(node, "stated_alignment")
        behavioral == calculate_behavioral_alignment(
                          stated, NodeRelationships(ls, c, node.id, Len(ls)), targets)
        final == apply_ceiling_constraint(stated, behavioral)
        drift == calculate_drift(stated, final)
    IN  [stated |-> IF stated # None
                    THEN [law_chaos |-> stated.law_chaos, good_evil |-> stated.good_evil]
                    ELSE None,
         behavioral |-> behavioral,
         final |-> final,
         confidence |->
             IF stated # None /\ Get(stated, "source", "") = "explicit"
             THEN Scale - FMul(drift, drift_confidence_factor)
             ELSE IF stated # None THEN Get(stated, "confidence", default_llm_confidence)
             ELSE default_behavioral_confidence,
         drift |-> drift,
         source |-> IF stated # None THEN Get(stated, "source", "behavioral")
                    ELSE "behavioral"]

\* lines 644-688, had the loop not skipped the nodes without alignment and
\* without stated alignment (lines 645-646)
BehavioralNodeNoGuard ==
    /\ pc = "behavioral"
    /\ LET node == nodes[idx]
       IN  IF ~Eligible(node)
           THEN UNCHANGED nodes
           ELSE nodes' = [nodes EXCEPT
                    ![idx].alignment = DirectAlignment(node, links, cache,
                                                       target_alignments),
                    ![idx].stated_alignment = Absent]
    /\ Advance(Len(nodes), "cleanup")
    /\ UNCHANGED <<api_key, links, cache, disk, target_alignments, iteration, changes,
                   svcCalls, paid, seeds, args, out>>

\* the lookup the pass would have with the final scores of the nodes it
\* has already visited in place of their stated alignments
LiveTargets(ns, targets) ==
    [id \in DOMAIN targets |->
        LET a == NodeGet(NodeById(ns, id), "alignment")
        IN  IF a # None THEN [final |-> a.final] ELSE targets[id]]

\* BehavioralOne, had a target been looked up with its final score once
\* the pass had made it
BehavioralOneLive(ns, ls, c, targets, i) ==
    LET node == ns[i]
    IN  IF \/ NodeGet(node, "alignment") = None
              /\ NodeGet(node, "stated_alignment") = None
           \/ ~Eligible(node)
        THEN ns
        ELSE [ns EXCEPT
                 ![i].alignment = DirectAlignment(node, ls, c, LiveTargets(ns, targets)),
                 ![i].stated_alignment = Absent]

\* lines 645-688: the node list after the body of the loop ran for the node
\* at position i
BehavioralOne(ns, ls, c, targets, i) ==
    LET node == ns[i]
    IN  IF \/ NodeGet(node, "alignment") = None
              /\ NodeGet(node, "stated_alignment") = None
           \/ ~Eligible(node)
        THEN ns
        ELSE [ns EXCEPT
                 ![i].alignment = DirectAlignment(node, ls, c, targets),
                 ![i].stated_alignment = Absent]

\* lines 644-688
BehavioralNode ==
    /\ pc = "behavioral"
    /\ nodes' = BehavioralOne(nodes, links, cache, target_alignments, idx)
    /\ Advance(Len(nodes), "cleanup")
    /\ UNCHANGED <<api_key, links, cache, disk, target_alignments, iteration, changes,
                   svcCalls, paid, seeds, args, out>>

Aligned(ns) == {ns[i].id : i \in {j \in 1..Len(ns) : NodeGet(ns[j], "alignment") # None}}

\* lines 691-693, and the entry into propagate_alignments (line 696)
Cleanup ==
    /\ pc = "cleanup"
    /\ nodes' = [i \in 1..Len(nodes) |-> [nodes[i] EXCEPT !.stated_alignment = Absent]]
    /\ pc' = "propagate"
    /\ idx' = 1
    /\ iteration' = 0
    /\ changes' = 0
    /\ seeds' = Aligned(nodes)
    /\ UNCHANGED <<api_key, links, cache, disk, target_alignments, svcCalls, paid,
                   args, out>>

\* lines 442-479: the inner loop's body for the node at idx and, after the
\* last node of a round, the end of the round
\* PropagateNode, had the loop no "if changes == 0: break"
PropagateNodeNoBreak ==
    /\ pc = "propagate"
    /\ LET assigned == PropagateOne(nodes, links, idx)
           count == IF assigned # nodes[idx].alignment THEN changes + 1 ELSE changes
       IN  /\ nodes' = [nodes EXCEPT ![idx].alignment = assigned]
           /\ IF idx < Len(nodes)
              THEN idx' = idx + 1 /\ changes' = count /\ UNCHANGED <<pc, iteration>>
              ELSE IF iteration + 1 >= max_iterations
              THEN pc' = "propagated" /\ changes' = count /\ UNCHANGED <<idx, iteration>>
              ELSE /\ iteration' = iteration + 1
                   /\ changes' = 0
                   /\ idx' = 1
                   /\ UNCHANGED pc
    /\ UNCHANGED <<api_key, links, cache, disk, target_alignments, svcCalls, paid,
                   seeds, args, out>>

PropagateNode ==
    /\ pc = "propagate"
    /\ LET assigned == PropagateOne(nodes, links, idx)
           count == IF assigned # nodes[idx].alignment THEN changes + 1 ELSE changes
       IN  /\ nodes' = [nodes EXCEPT ![idx].alignment = assigned]
           /\ IF idx < Len(nodes)
              THEN idx' = idx + 1 /\ changes' = count /\ UNCHANGED <<pc, iteration>>
              ELSE IF count = 0 \/ iteration + 1 >= max_iterations
              THEN pc' = "propagated" /\ changes' = count /\ UNCHANGED <<idx, iteration>>
              ELSE /\ iteration' = iteration + 1
                   /\ changes' = 0
                   /\ idx' = 1
                   /\ UNCHANGED pc
    /\ UNCHANGED <<api_key, links, cache, disk, target_alignments, svcCalls, paid,
                   seeds, args, out>>

\* lines 698-699
SaveFinal ==
    /\ pc = "propagated"
    /\ \E written \in BOOLEAN : disk' = save_cache(cache, disk, written)
    /\ pc' = "done"
    /\ UNCHANGED <<api_key, nodes, links, cache, idx, target_alignments, iteration,
                   changes, svcCalls, paid, seeds, args, out>>

(***************************************************************************)
(* Inputs of a pipeline run                                                *)
(***************************************************************************)
NumNodes == 3
MaxLinks == 2

NodeProfiles ==
    { [title |-> <<"Alaric">>, collectionId |-> "npc",
       content |-> <<"Alaric", "is", "Lawful", "Good", ".", "He", "slew", "Bree">>],
      [title |-> <<"Bree">>, collectionId |-> "npc",
       content |-> <<"Bree", "the", "chaotic", "evil", "witch", "aided", "Alaric">>],
      [title |-> <<"Corwin">>, collectionId |-> "faction",
       content |-> <<"Corwin", "guards", "Alaric", "!", "Corwin", "hunts", "Bree">>],
      [title |-> <<"Edda">>, collectionId |-> "npc",
       content |-> <<>>],
      [title |-> <<"Dunmere">>, collectionId |-> "place",
       content |-> <<"a", "Lawful", "Good", "town", "where", "Alaric", "was", "born">>] }

\* a node as the graph extraction hands it over: no alignment key
InputNode(id, profile) ==
    [id |-> id, title |-> profile.title, content |-> profile.content,
     collectionId |-> profile.collectionId,
     alignment |-> Absent, stated_alignment |-> Absent]

InputLink(source, target) ==
    [source |-> source, target |-> target, relationship |-> Absent]

SeqsUpTo(S, n) == UNION {[1..k -> S] : k \in 0..n}

\* a cache file that an earlier run left behind
PriorCache ==
    LET corwin == <<"Corwin", "guards", "Alaric", "!", "Corwin", "hunts", "Bree">>
    IN  [entities |->
             Put(<<>>, compute_content_hash(corwin),
                 [alignment |-> [law_chaos |-> 400, good_evil |-> -300,
                                 confidence |-> 800, source |-> "llm"],
                  title |-> <<"Corwin">>]),
         relationships |->
             Put(<<>>,
                 compute_relationship_hash(<<"Alaric">>, <<"Bree">>,
                                           <<"He", "slew", "Bree">>),
                 [result |-> [type |-> "harmed", moral_valence |-> -600,
                              order_valence |-> -200,
                              source_id |-> 7, target_id |-> 9],
                  source |-> <<"Alaric">>, target |-> <<"Bree">>])]

Init ==
    /\ pc = "classify_nodes"
    /\ api_key \in BOOLEAN
    /\ \E profile \in [1..NumNodes -> NodeProfiles] :
          \* the documents of a wiki: no two of them the same
          /\ \A i, j \in 1..NumNodes : i # j => profile[i] # profile[j]
          /\ nodes = [i \in 1..NumNodes |-> InputNode(i, profile[i])]
    /\ \E ends \in SeqsUpTo({e \in (1..NumNodes) \X (1..NumNodes) : e[1] # e[2]},
                             MaxLinks) :
          links = [k \in 1..Len(ends) |-> InputLink(ends[k][1], ends[k][2])]
    /\ disk \in {None, PriorCache}
    /\ cache = load_cache(disk)
    /\ idx = 1
    /\ target_alignments = <<>>
    /\ iteration = 0
    /\ changes = 0
    /\ svcCalls = 0
    /\ paid = {}
    /\ seeds = {}
    /\ args = <<>>
    /\ out = <<>>

Next ==
    \/ ClassifyNode
    \/ ClassifyLink
    \/ CollectStated
    \/ BehavioralNode
    \/ Cleanup
    \/ PropagateNode
    \/ SaveFinal

Spec == Init /\ [][Next]_vars

(***************************************************************************)
(* apply_ceiling_constraint called on its own                              *)
(***************************************************************************)
AxisGrid == {-Scale, -600, -1, 0, 1, 600, Scale}
ScoreGrid == [law_chaos : AxisGrid, good_evil : AxisGrid]

\* the variables of a pipeline run, for a function called outside one
NoPipeline ==
    /\ api_key = FALSE
    /\ nodes = <<>>
    /\ links = <<>>
    /\ disk = None
    /\ cache = EmptyCache
    /\ idx = 1
    /\ target_alignments = <<>>
    /\ iteration = 0
    /\ changes = 0
    /\ svcCalls = 0
    /\ paid = {}
    /\ seeds = {}

InitCeiling ==
    /\ pc = "call_ceiling"
    /\ \E a \in [stated : ScoreGrid \cup {None}, behavioral : ScoreGrid] : args = <<a>>
    /\ out = <<>>
    /\ NoPipeline

CallCeiling ==
    /\ pc = "call_ceiling"
    /\ out' = <<apply_ceiling_constraint(args[1].stated, args[1].behavioral)>>
    /\ pc' = "returned"
    /\ UNCHANGED <<api_key, nodes, links, cache, disk, idx, target_alignments,
                   iteration, changes, svcCalls, paid, seeds, args>>

SpecCeiling == InitCeiling /\ [][CallCeiling]_vars

\* C1: whatever the behavioral score, the score apply_ceiling_constraint
\* returns is at most the stated one on every axis where the stated value
\* is not negative.
CeilingLaw ==
    \A k \in 1..Len(out) :
        args[k].stated # None =>
            /\ args[k].stated.good_evil >= 0
                   => out[k].good_evil <= args[k].stated.good_evil
            /\ args[k].stated.law_chaos >= 0
                   => out[k].law_chaos <= args[k].stated.law_chaos

\* the ceiling acted: a behavioral score above a non-negative stated one was cut
CeilingLawWitness ==
    /\ pc = "returned"
    /\ args[1].stated # None
    /\ args[1].stated.good_evil >= 0
    /\ args[1].behavioral.good_evil > args[1].stated.good_evil
    /\ out[1].good_evil = args[1].stated.good_evil
    /\ args[1].stated.law_chaos >= 0
    /\ args[1].behavioral.law_chaos > args[1].stated.law_chaos
    /\ out[1].law_chaos = args[1].stated.law_chaos

\* C1, second half: the same inequalities on every node the pipeline
\* classified directly.
CeilingLawInPipeline ==
    \A i \in 1..Len(nodes) :
        LET a == NodeGet(nodes[i], "alignment")
        IN  (a # None /\ a.stated # None) =>
                /\ a.stated.good_evil >= 0 => a.final.good_evil <= a.stated.good_evil
                /\ a.stated.law_chaos >= 0 => a.final.law_chaos <= a.stated.law_chaos

\* C2: a node classified directly never ends above its stated alignment,
\* whatever the sign of the stated values.
NeverAboveStated ==
    \A i \in 1..Len(nodes) :
        LET a == NodeGet(nodes[i], "alignment")
        IN  (a # None /\ a.stated # None) =>
                /\ a.final.good_evil <= a.stated.good_evil
                /\ a.final.law_chaos <= a.stated.law_chaos

InAxis(x) == -Scale <= x /\ x <= Scale
InUnit(x) == 0 <= x /\ x <= Scale

\* C3: when classify_alignments has returned, every alignment record, direct
\* or propagated, has its four axis values in [-1, 1] and its confidence and
\* drift in [0, 1].
RangeInvariant ==
    pc = "done" =>
        \A i \in 1..Len(nodes) :
            LET a == NodeGet(nodes[i], "alignment")
            IN  a # None =>
                    /\ InAxis(a.behavioral.law_chaos) /\ InAxis(a.behavioral.good_evil)
                    /\ InAxis(a.final.law_chaos) /\ InAxis(a.final.good_evil)
                    /\ InUnit(a.confidence) /\ InUnit(a.drift)

\* a run that ended with a node whose stated values the service gave out of
\* range and that drifted from them, and with a propagated node
RangeWitness ==
    /\ pc = "done"
    /\ svcCalls > 0
    /\ \E i, k \in 1..Len(nodes) :
          /\ NodeGet(nodes[i], "alignment") # None
          /\ nodes[i].alignment.source = "llm"
          /\ nodes[i].alignment.stated.good_evil = Scale
          /\ nodes[i].alignment.confidence = Scale
          /\ nodes[i].alignment.drift > 0
          /\ NodeGet(nodes[k], "alignment") # None
          /\ nodes[k].alignment.source = "propagated"

(***************************************************************************)
(* propagate_alignments called on its own                                  *)
(*                                                                         *)
(* The nodes come with the alignments the direct pass can leave: no key,   *)
(* None, or a direct record.  propagate_alignments reads a link only for   *)
(* its two ends, and the sums it takes do not depend on the order of the   *)
(* links here, so a link list is taken with its ends and its links in      *)
(* ascending order; the same two nodes may be linked more than once (a     *)
(* link in each direction).                                                *)
(***************************************************************************)
PropNodes == 3
PropLinks == 3
ChainLen == 12

\* the direct record of a node with this stated alignment and no relationship
SeedRecord(stated) ==
    DirectAlignment([id |-> 0, stated_alignment |-> stated, alignment |-> Absent],
                    <<>>, EmptyCache, <<>>)

SeedAlignments ==
    { SeedRecord(extract_stated_alignment(<<"Lawful", "Good">>)),
      SeedRecord(classify_entity_llm(<<"x">>, <<"x">>, TRUE, EmptyCache,
                     [law_chaos |-> -1500, good_evil |-> -400, confidence |-> 0]).ret),
      SeedRecord(classify_entity_llm(<<"x">>, <<"x">>, TRUE, EmptyCache,
                     [good_evil |-> -700]).ret) }

PropNode(id, alignment) ==
    [id |-> id, title |-> <<>>, content |-> <<>>, collectionId |-> "npc",
     alignment |-> alignment, stated_alignment |-> Absent]

EndsRank(e, n) == e[1] * (n + 1) + e[2]

\* the link lists over n nodes with at most m links
LinkLists(n, m) ==
    LET pairs == {e \in (1..n) \X (1..n) : e[1] < e[2]}
    IN  {ends \in SeqsUpTo(pairs, m) :
            \A k \in 1..(Len(ends) - 1) :
                EndsRank(ends[k], n) <= EndsRank(ends[k + 1], n)}

InitPropagate ==
    /\ pc = "propagate"
    /\ \/ /\ \E a \in [1..PropNodes -> SeedAlignments \cup {None, Absent}] :
                 nodes = [i \in 1..PropNodes |-> PropNode(i, a[i])]
          /\ \E ends \in LinkLists(PropNodes, PropLinks) :
                 links = [k \in 1..Len(ends) |-> InputLink(ends[k][1], ends[k][2])]
       \/ /\ \E at \in {1, ChainLen}, seed \in SeedAlignments :
                 nodes = [i \in 1..ChainLen |->
                             PropNode(i, IF i = at THEN seed ELSE Absent)]
          /\ links = [k \in 1..(ChainLen - 1) |-> InputLink(k, k + 1)]
    /\ seeds = Aligned(nodes)
    /\ api_key = FALSE
    /\ disk = None
    /\ cache = EmptyCache
    /\ idx = 1
    /\ target_alignments = <<>>
    /\ iteration = 0
    /\ changes = 0
    /\ svcCalls = 0
    /\ paid = {}
    /\ args = <<>>
    /\ out = <<>>

SpecPropagate == InitPropagate /\ [][PropagateNode]_vars

Ids == {nodes[i].id : i \in 1..Len(nodes)}
Linked(u, v) ==
    \E k \in 1..Len(links) :
        \/ links[k].source = u /\ links[k].target = v
        \/ links[k].source = v /\ links[k].target = u

RECURSIVE Within(_, _, _)
\* the nodes S reaches by at most k links, every node after the first in Via
Within(S, Via, k) ==
    IF k = 0 THEN S
    ELSE LET R == Within(S, Via, k - 1)
         IN  R \cup {u \in Via : \E v \in R : Linked(u, v)}

\* the connected component of a set of nodes
Component(S) == Within(S, Ids, Len(nodes))

AlignmentOf(id) == NodeGet(NodeById(nodes, id), "alignment")
IsPropagated(id) ==
    /\ AlignmentOf(id) # None
    /\ AlignmentOf(id).source = "propagated"
    /\ AlignmentOf(id).confidence = (3 * Scale) \div 10

\* C4 as stated: once propagate_alignments has returned, every node that
\* was not aligned before and whose connected component holds a node that
\* was, has a propagated alignment of confidence 0.3.
PropagationCoversComponent ==
    pc = "propagated" =>
        \A u \in Ids \ seeds :
            Component({u}) \cap seeds # {} => IsPropagated(u)

\* C4 as amended: the same for every node that a seed of positive
\* confidence reaches by at most 10 links through nodes that were not aligned.
PropagationCoversNear ==
    pc = "propagated" =>
        LET positive == {v \in seeds : AlignmentOf(v).confidence > 0}
        IN  \A u \in Within(positive, Ids \ seeds, 10) \ seeds : IsPropagated(u)

\* all ten rounds ran, the last of them reached a node ten links from the
\* seed, and a node further away was left without alignment
PropagationCoversNearWitness ==
    /\ pc = "propagated"
    /\ iteration = 9
    /\ LET positive == {v \in seeds : AlignmentOf(v).confidence > 0}
       IN  /\ \E u \in Within(positive, Ids \ seeds, 10)
                        \ Within(positive, Ids \ seeds, 9) : IsPropagated(u)
           /\ \E u \in Component(positive) : AlignmentOf(u) = None

\* C5: in every round, a node whose connected component held no aligned
\* node when propagation started has no alignment.
NoSeedNoAlignment ==
    \A u \in Ids : Component({u}) \cap seeds = {} => AlignmentOf(u) = None

\* propagation ran to its end next to two linked nodes with no seed in reach
NoSeedNoAlignmentWitness ==
    /\ pc = "propagated"
    /\ seeds # {}
    /\ \E u, v \in Ids :
          /\ u # v
          /\ Linked(u, v)
          /\ Component({u}) \cap seeds = {}
          /\ AlignmentOf(u) = None

RECURSIVE SumOfNodes(_, _)
\* the sum of one of the three terms over a set of aligned nodes
SumOfNodes(S, which) ==
    IF S = {} THEN 0
    ELSE LET v == CHOOSE x \in S : TRUE
             a == AlignmentOf(v)
         IN  Term([law_chaos |-> a.final.law_chaos, good_evil |-> a.final.good_evil,
                   confidence |-> a.confidence], which)
             + SumOfNodes(S \ {v}, which)

\* C6: a record that propagation assigns has stated = null, drift = 0,
\* confidence = 0.3, source = "propagated" and behavioral = final = the
\* confidence-weighted average of the final scores of the neighbours that
\* carry an alignment when the node is processed, of which there is one at least.
PropagatedIsNeighbourAverage ==
    [][\A i \in 1..Len(nodes) :
          nodes'[i].alignment # nodes[i].alignment =>
              LET near == {v \in Ids : Linked(nodes[i].id, v) /\ AlignmentOf(v) # None}
                  avg == [law_chaos |-> FDiv(SumOfNodes(near, "law"),
                                             SumOfNodes(near, "weight")),
                          good_evil |-> FDiv(SumOfNodes(near, "good"),
                                             SumOfNodes(near, "weight"))]
              IN  /\ near # {}
                  /\ nodes'[i].alignment =
                         [stated |-> None, behavioral |-> avg, final |-> avg,
                          confidence |-> (3 * Scale) \div 10, drift |-> 0,
                          source |-> "propagated"]]_vars

(***************************************************************************)
(* The two classifiers called on their own, in any order                   *)
(***************************************************************************)
MaxCalls == 2

CallTitles == {<<"Corwin">>, <<"Edda">>}
CallContents ==
    {<<>>, <<"Corwin", "guards", "Alaric", "!", "Corwin", "hunts", "Bree">>,
     <<"Edda", "keeps", "the", "inn">>}
CallContexts == {<<"He", "slew", "Bree">>, <<"Alaric", "guards", "Bree">>}

\* answers of the service far outside the ranges the prompt asks for
WildEntityResponses ==
    { [law_chaos |-> 1001, good_evil |-> -1001, confidence |-> -1],
      [law_chaos |-> -70000, good_evil |-> 90000, confidence |-> 1001] }
WildRelationshipResponses ==
    { [type |-> "killed", moral_valence |-> -3000, order_valence |-> -1001],
      [type |-> "saved", moral_valence |-> 1001, order_valence |-> 50000] }

InitClassifiers ==
    /\ pc = "calls"
    /\ api_key \in BOOLEAN
    /\ disk \in {None, PriorCache}
    /\ cache = load_cache(disk)
    /\ nodes = <<>>
    /\ links = <<>>
    /\ idx = 1
    /\ target_alignments = <<>>
    /\ iteration = 0
    /\ changes = 0
    /\ svcCalls = 0
    /\ paid = {}
    /\ seeds = {}
    /\ args = <<>>
    /\ out = <<>>

\* what a call leaves behind, r being what the classifier did
Returned(call, r, resp, written) ==
    /\ args' = Append(args, call)
    /\ out' = Append(out, [ret |-> r.ret, called |-> r.called, saved |-> r.saved,
                           response |-> IF r.called THEN resp ELSE None])
    /\ cache' = r.cache
    /\ disk' = IF r.saved THEN save_cache(r.cache, disk, written) ELSE disk
    /\ svcCalls' = svcCalls + (IF r.called THEN 1 ELSE 0)
    /\ UNCHANGED <<pc, api_key, nodes, links, idx, target_alignments, iteration,
                   changes, paid, seeds>>

CallEntity ==
    /\ pc = "calls"
    /\ Len(args) < MaxCalls
    /\ \E title \in CallTitles, content \in CallContents,
          resp \in EntityResponses \cup WildEntityResponses \cup Failures,
          written \in BOOLEAN :
          Returned([fn |-> "classify_entity_llm", title |-> title, content |-> content],
                   classify_entity_llm(title, content, api_key, cache, resp),
                   resp, written)

CallRelationship ==
    /\ pc = "calls"
    /\ Len(args) < MaxCalls
    /\ \E source_title \in {<<"Alaric">>, <<"Corwin">>}, context \in CallContexts,
          resp \in RelationshipResponses \cup WildRelationshipResponses \cup Failures,
          written \in BOOLEAN :
          Returned([fn |-> "classify_relationship_llm", source_title |-> source_title,
                    target_title |-> <<"Bree">>, context |-> context],
                   classify_relationship_llm(source_title, <<"Bree">>, context,
                                             api_key, cache, resp),
                   resp, written)

NextClassifiers == CallEntity \/ CallRelationship

SpecClassifiers == InitClassifiers /\ [][NextClassifiers]_vars

\* the cache map a call looks in, and the key it looks under
MapOf(c, call) ==
    IF call.fn = "classify_entity_llm" THEN c.entities ELSE c.relationships
KeyOf(call) ==
    IF call.fn = "classify_entity_llm" THEN compute_content_hash(call.content)
    ELSE compute_relationship_hash(call.source_title, call.target_title, call.context)
StoredFor(c, call) ==
    IF call.fn = "classify_entity_llm" THEN MapOf(c, call)[KeyOf(call)].alignment
    ELSE MapOf(c, call)[KeyOf(call)].result

\* C7: a call of either classifier with the service configured and the hash
\* of its input already a key of its cache map returns the stored result,
\* does not invoke the service, and leaves the cache and the cache file as
\* they were.
CacheHitReturnsStored ==
    [][Len(args') = Len(args) + 1 =>
          LET call == args'[Len(args')]
              o == out'[Len(out')]
          IN  api_key /\ KeyOf(call) \in DOMAIN MapOf(cache, call) =>
                  /\ o.ret = StoredFor(cache, call)
                  /\ ~o.called /\ ~o.saved
                  /\ svcCalls' = svcCalls
                  /\ cache' = cache
                  /\ disk' = disk]_vars

\* each classifier has answered a call from the cache
CacheHitWitness ==
    /\ api_key
    /\ \E j, k \in 1..Len(args) :
          /\ args[j].fn = "classify_entity_llm"
          /\ args[k].fn = "classify_relationship_llm"
          /\ \A i \in {j, k} :
                /\ KeyOf(args[i]) \in DOMAIN MapOf(cache, args[i])
                /\ ~out[i].called /\ out[i].ret = StoredFor(cache, args[i])
          /\ svcCalls = 0

\* C8 as stated: of two calls of classify_entity_llm with the same title
\* and content at most one invokes the service, and the second returns
\* what the first returned.
RoundTrip ==
    \A j, k \in 1..Len(args) :
        j < k /\ args[j].fn = "classify_entity_llm" /\ args[j] = args[k] =>
            /\ ~(out[j].called /\ out[k].called)
            /\ out[k].ret = out[j].ret

\* C8 as amended: when the first call returned a result, the second does not
\* invoke the service and returns the same result; when the service failed
\* the first call and the second is the next call made, the second invokes
\* the service again.
RoundTripAfterResult ==
    \A j, k \in 1..Len(args) :
        j < k /\ args[j].fn = "classify_entity_llm" /\ args[j] = args[k] =>
            /\ out[j].ret # None => ~out[k].called /\ out[k].ret = out[j].ret
            /\ out[j].called /\ out[j].ret = None /\ k = j + 1 => out[k].called

\* the service answered the first of two identical calls, the cache the second
RoundTripWitness ==
    \E j, k \in 1..Len(args) :
        /\ j < k /\ args[j].fn = "classify_entity_llm" /\ args[j] = args[k]
        /\ out[j].called /\ out[j].ret # None
        /\ ~out[k].called /\ out[k].ret = out[j].ret
        /\ svcCalls = 1

(***************************************************************************)
(* The cache and its file during a pipeline run                            *)
(***************************************************************************)
\* the result p is what the dict c holds under p's key
Holds(c, p) ==
    /\ c # None
    /\ p.key \in DOMAIN c[p.kind]
    /\ IF p.kind = "entities" THEN c.entities[p.key].alignment = p.result
       ELSE \A f \in DOMAIN p.result : c.relationships[p.key].result[f] = p.result[f]

KeysOf(c, kind) == IF c = None THEN {} ELSE DOMAIN c[kind]

ServiceFailureIsAbsorbed ==
    [][Len(args') = Len(args) + 1 =>
          LET o == out'[Len(out')]
          IN  o.called /\ o.response \in Failures =>
                  /\ o.ret = None
                  /\ ~o.saved
                  /\ cache' = cache
                  /\ disk' = disk]_vars

\* the service answered a call with a malformed response, and the same call
\* made again was answered
ServiceFailureWitness ==
    \E j, k \in 1..Len(args) :
        /\ j < k /\ args[j] = args[k]
        /\ out[j].called /\ out[j].response = [error |-> "malformed"]
        /\ out[j].ret = None
        /\ out[k].called /\ out[k].ret # None

\* C11, for the orchestrator: a node or link whose call of the service
\* failed leaves the cache and the file alone, and the loop moves on to the
\* next node or link, or to the next stage.
ServiceFailureInPipeline ==
    [][svcCalls' = svcCalls + 1 /\ paid' = paid =>
          /\ cache' = cache
          /\ disk' = disk
          /\ links' = links
          /\ pc = "classify_nodes" => nodes'[idx].stated_alignment = None
          /\ (pc' = pc /\ idx' = idx + 1) \/ pc' # pc]_vars

\* an entity alignment, as stored or returned, within the ranges
EntityInRange(a) ==
    /\ InAxis(a.law_chaos) /\ InAxis(a.good_evil)
    /\ InUnit(a.confidence)
RelationshipInRange(r) == InAxis(r.moral_valence) /\ InAxis(r.order_valence)
CacheInRange(c) ==
    c # None =>
        /\ \A k \in DOMAIN c.entities : EntityInRange(c.entities[k].alignment)
        /\ \A k \in DOMAIN c.relationships :
              RelationshipInRange(c.relationships[k].result)

\* C12: whatever numbers the service answers, every entity alignment
\* returned or stored has law_chaos and good_evil in [-1, 1] and confidence
\* in [0, 1], and every relationship result returned or stored has
\* moral_valence and order_valence in [-1, 1].
ClampedOutput ==
    /\ CacheInRange(cache)
    /\ CacheInRange(disk)
    /\ \A k \in 1..Len(out) :
          out[k].ret # None =>
              IF args[k].fn = "classify_entity_llm" THEN EntityInRange(out[k].ret)
              ELSE RelationshipInRange(out[k].ret)

\* both classifiers were answered out of range on every number, above and
\* below, and returned the nearest bound
ClampedOutputWitness ==
    \E j, k \in 1..Len(args) :
        /\ args[j].fn = "classify_entity_llm"
        /\ out[j].response = [law_chaos |-> -70000, good_evil |-> 90000,
                              confidence |-> 1001]
        /\ out[j].ret = [law_chaos |-> -Scale, good_evil |-> Scale,
                         confidence |-> Scale, source |-> "llm"]
        /\ args[k].fn = "classify_relationship_llm"
        /\ out[k].response = [type |-> "killed", moral_valence |-> -3000,
                              order_valence |-> -1001]
        /\ out[k].ret.moral_valence = -Scale /\ out[k].ret.order_valence = -Scale
        /\ CacheInRange(cache) /\ disk = cache

(***************************************************************************)
(* Which nodes of a pipeline run are classified, and how                   *)
(***************************************************************************)
Outside(i) == nodes[i].collectionId \notin alignment_collection_ids
HasPattern(content) ==
    \E p \in 1..Len(ALIGNMENT_PATTERNS) : Search(content, ALIGNMENT_PATTERNS[p].words) > 0

\* C13: for a node whose collection is outside the eligibility set, no
\* step stores a stated alignment, the step that visits the node and the
\* steps that visit the links leaving it invoke no service and change
\* neither cache nor link, and the node never carries an alignment of source
\* "explicit", "llm" or "behavioral".
IneligibleNeverDirect ==
    [][\A i \in 1..Len(nodes) :
          Outside(i) =>
              /\ nodes'[i].stated_alignment = Absent
              /\ NodeGet(nodes'[i], "alignment") # None
                     => nodes'[i].alignment.source = "propagated"
              /\ pc = "classify_nodes" /\ idx = i
                     => svcCalls' = svcCalls /\ cache' = cache /\ disk' = disk
              /\ pc = "classify_links" /\ links[idx].source = nodes[i].id
                     => /\ svcCalls' = svcCalls /\ cache' = cache /\ disk' = disk
                        /\ links' = links]_vars

\* a run with the service configured ended without a call of it, though a
\* node outside the set states an alignment in its text and has a link
\* leaving it
IneligibleNeverDirectWitness ==
    /\ pc = "done"
    /\ api_key
    /\ svcCalls = 0
    /\ \E i \in 1..Len(nodes) :
          /\ Outside(i)
          /\ HasPattern(nodes[i].content)
          /\ \E k \in 1..Len(links) : links[k].source = nodes[i].id
          /\ nodes[i].alignment # Absent

\* C17: the step that visits an eligible node whose text matches a pattern
\* invokes no service, leaves cache and file alone and stores a stated
\* alignment of source "explicit"; a step that invokes the entity
\* classifier's service visits a node without match, with the service
\* configured.
ExplicitBeforeService ==
    [][pc = "classify_nodes" /\ ~Outside(idx) =>
          /\ HasPattern(nodes[idx].content) =>
                 /\ svcCalls' = svcCalls /\ cache' = cache /\ disk' = disk
                 /\ nodes'[idx].stated_alignment \notin {None, Absent}
                 /\ nodes'[idx].stated_alignment.source = "explicit"
          /\ svcCalls' # svcCalls => ~HasPattern(nodes[idx].content) /\ api_key]_vars

\* with the service configured, the nodes were classified with one call of
\* it, for the node without match, and none for the node with one
ExplicitBeforeServiceWitness ==
    /\ api_key
    /\ pc \in {"classify_links", "collect"}
    /\ svcCalls = 1
    /\ \E i, j \in 1..Len(nodes) :
          /\ ~Outside(i) /\ HasPattern(nodes[i].content)
          /\ nodes[i].stated_alignment \notin {None, Absent}
          /\ nodes[i].stated_alignment.source = "explicit"
          /\ ~Outside(j) /\ ~HasPattern(nodes[j].content)
          /\ nodes[j].stated_alignment \notin {None, Absent}
          /\ nodes[j].stated_alignment.source = "llm"
          /\ DOMAIN cache.entities = {compute_content_hash(nodes[j].content)}

\* C14: when classify_alignments has returned, every node whose collection
\* is outside the eligibility set has alignment = null.
IneligibleEndNull ==
    pc = "done" => \A i \in 1..Len(nodes) : Outside(i) => nodes[i].alignment = None

\* C15: when classify_alignments has returned, every node has the
\* alignment field, holding a record or null.
AlignmentFieldPresent ==
    pc = "done" => \A i \in 1..Len(nodes) : nodes[i].alignment # Absent

\* C16: when the behavioral pass is over, every eligible node carries the
\* record that pass made for it, with or without a stated alignment, and
\* propagation afterwards changes the alignment only of nodes that carry
\* none.
EveryEligibleGetsResult ==
    [][/\ pc' = "cleanup" =>
             \A i \in 1..Len(nodes) :
                 ~Outside(i) =>
                     /\ NodeGet(nodes'[i], "alignment") # None
                     /\ nodes'[i].alignment.source \in {"explicit", "llm", "behavioral"}
       /\ pc = "propagate" =>
             \A i \in 1..Len(nodes) :
                 nodes'[i].alignment # nodes[i].alignment
                     => NodeGet(nodes[i], "alignment") = None]_vars

(***************************************************************************)
(* extract_stated_alignment called on its own                              *)
(***************************************************************************)
MaxText == 3

\* every word of the table, in one case or another, and a word outside it
ExtractWords ==
    {"Lawful", "neutral", "Chaotic", "True", "good", "Evil",
     "LG", "ng", "CG", "LN", "tn", "N", "cn", "LE", "ne", "CE", "Vex"}

\* the texts of test_cases, with the pair each expects
TestCases ==
    << [text |-> <<"He", "is", "a", "lawful", "good", "paladin", ".">>,
        expected |-> <<Scale, Scale>>],
       [text |-> <<"The", "creature", "is", "chaotic", "evil", ".">>,
        expected |-> <<-Scale, -Scale>>],
       [text |-> <<"Alignment", ":", "LG">>, expected |-> <<Scale, Scale>>],
       [text |-> <<"She", "considers", "herself", "neutral", "good", ".">>,
        expected |-> <<0, Scale>>],
       [text |-> <<"No", "alignment", "mentioned", "here", ".">>, expected |-> None] >>

InitExtract ==
    /\ pc = "call_extract"
    /\ \E text \in SeqsUpTo(ExtractWords, MaxText)
                    \cup {TestCases[c].text : c \in 1..Len(TestCases)} :
          args = <<[content |-> text]>>
    /\ out = <<>>
    /\ NoPipeline

CallExtract ==
    /\ pc = "call_extract"
    /\ out' = <<extract_stated_alignment(args[1].content)>>
    /\ pc' = "returned"
    /\ UNCHANGED <<api_key, nodes, links, cache, disk, idx, target_alignments,
                   iteration, changes, svcCalls, paid, seeds, args>>

SpecExtract == InitExtract /\ [][CallExtract]_vars

\* the patterns of the table a text matches
Matching(text) ==
    {p \in 1..Len(ALIGNMENT_PATTERNS) : Search(text, ALIGNMENT_PATTERNS[p].words) > 0}
PairOf(p) == <<ALIGNMENT_PATTERNS[p].law_chaos, ALIGNMENT_PATTERNS[p].good_evil>>
\* the result the table documents for pattern p
ExplicitOf(p) ==
    [law_chaos |-> ALIGNMENT_PATTERNS[p].law_chaos,
     good_evil |-> ALIGNMENT_PATTERNS[p].good_evil,
     confidence |-> Scale, source |-> "explicit"]

\* C18 as stated: for every pattern of the table, a text that matches it
\* yields that pattern's pair with confidence 1.0 and source "explicit"; a
\* text that matches none yields None.
PatternYieldsItsPair ==
    \A k \in 1..Len(out) :
        /\ \A p \in Matching(args[k].content) : out[k] = ExplicitOf(p)
        /\ Matching(args[k].content) = {} => out[k] = None

\* C18 as amended: the same for every pattern the text matches when every
\* pattern the text matches has that pattern's pair; and the test cases of
\* the module yield what they expect.
PatternYieldsItsPairAlone ==
    \A k \in 1..Len(out) :
        LET text == args[k].content
        IN  /\ \A p \in Matching(text) :
                  (\A q \in Matching(text) : PairOf(q) = PairOf(p))
                      => out[k] = ExplicitOf(p)
            /\ Matching(text) = {} => out[k] = None
            /\ \A c \in 1..Len(TestCases) :
                  text = TestCases[c].text =>
                      IF TestCases[c].expected = None THEN out[k] = None
                      ELSE /\ out[k] # None
                           /\ <<out[k].law_chaos, out[k].good_evil>>
                                  = TestCases[c].expected

\* a text whose only match is an abbreviation, in another case than the
\* table's, yielded the abbreviation's pair
PatternYieldsItsPairWitness ==
    /\ pc = "returned"
    /\ \E p \in 10..Len(ALIGNMENT_PATTERNS) :
          /\ Matching(args[1].content) = {p}
          /\ \E i \in 1..Len(args[1].content) :
                args[1].content[i] # ALIGNMENT_PATTERNS[p].words[1]
                /\ Lower(args[1].content[i]) = ALIGNMENT_PATTERNS[p].words[1]
          /\ PairOf(p) # <<0, 0>>
          /\ out[1] = ExplicitOf(p)

\* C20: a text that matches several patterns yields the pair of the one
\* with the smallest index in the table, wherever the matches are in the
\* text.
FirstInTableWins ==
    \A k \in 1..Len(out) :
        LET hits == Matching(args[k].content)
        IN  hits # {} =>
                out[k] = ExplicitOf(CHOOSE p \in hits : \A q \in hits : p <= q)

\* the pattern that won stands later in the text than another match, of
\* another pair
FirstInTableWinsWitness ==
    /\ pc = "returned"
    /\ \E p, q \in Matching(args[1].content) :
          /\ p < q
          /\ \A r \in Matching(args[1].content) : p <= r
          /\ PairOf(p) # PairOf(q)
          /\ Search(args[1].content, ALIGNMENT_PATTERNS[q].words)
                 < Search(args[1].content, ALIGNMENT_PATTERNS[p].words)
          /\ out[1] = ExplicitOf(p)

(***************************************************************************)
(* calculate_drift called on its own                                       *)
(***************************************************************************)
\* the function takes any pair of floats as stated: the grid of the
\* pipeline's values and a value outside [-1, 1] on either side
StatedAxisGrid == AxisGrid \cup {-1500, 1500}
EmptyDict == [k \in {} |-> 0]

InitDrift ==
    /\ pc = "call_drift"
    /\ \E stated \in [law_chaos : StatedAxisGrid, good_evil : StatedAxisGrid]
                      \cup {None, EmptyDict},
          final \in ScoreGrid :
          args = <<[stated |-> stated, final |-> final]>>
    /\ out = <<>>
    /\ NoPipeline

CallDrift ==
    /\ pc = "call_drift"
    /\ out' = <<calculate_drift(args[1].stated, args[1].final)>>
    /\ pc' = "returned"
    /\ UNCHANGED <<api_key, nodes, links, cache, disk, idx, target_alignments,
                   iteration, changes, svcCalls, paid, seeds, args>>

SpecDrift == InitDrift /\ [][CallDrift]_vars

StatedAbsent(k) == args[k].stated = None \/ args[k].stated = EmptyDict
StatedEqualsFinal(k) ==
    /\ ~StatedAbsent(k)
    /\ args[k].stated.law_chaos = args[k].final.law_chaos
    /\ args[k].stated.good_evil = args[k].final.good_evil
\* law_diff ** 2 + good_diff ** 2, as the function computes it
SquaresSum(k) ==
    LET law_diff == Abs(args[k].stated.law_chaos - args[k].final.law_chaos)
        good_diff == Abs(args[k].stated.good_evil - args[k].final.good_evil)
    IN  FMul(law_diff, law_diff) + FMul(good_diff, good_diff)

MaxRels == 2

\* stated alignments: none, the empty dict, and two records
BehavioralStated ==
    {None, [k \in {} |-> 0],
     [law_chaos |-> Scale, good_evil |-> Scale, confidence |-> Scale,
      source |-> "explicit"],
     [law_chaos |-> -600, good_evil |-> 300, confidence |-> 700, source |-> "llm"]}

\* relationships as the relationship classifier leaves them on a link: an
\* absent one, harm and other types, strong and weak valences, a known and
\* an unknown target, and one without valences
BehavioralRelationships ==
    {None,
     [type |-> "killed", moral_valence |-> -900, order_valence |-> -300,
      target_id |-> 2],
     [type |-> "harmed", moral_valence |-> -400, order_valence |-> 0,
      target_id |-> 3],
     [type |-> "saved", moral_valence |-> 800, order_valence |-> 200,
      target_id |-> 2],
     [type |-> "allied", moral_valence |-> 50, order_valence |-> -50,
      target_id |-> 3],
     [type |-> "destroyed", moral_valence |-> -Scale, order_valence |-> Scale,
      target_id |-> 4],
     [type |-> "killed", target_id |-> 2]}

\* the lookup of lines 637-642: the nodes with a stated alignment
BehavioralTargets ==
    {<<>>,
     [id \in {2} |-> [final |-> [law_chaos |-> -Scale, good_evil |-> -Scale]]],
     [id \in {2, 3} |->
         [final |-> IF id = 2 THEN [law_chaos |-> 0, good_evil |-> Scale]
                    ELSE [law_chaos |-> Scale, good_evil |-> -600]]]}

InitBehavioral ==
    /\ pc = "call_behavioral"
    /\ \E stated \in BehavioralStated,
          relationships \in SeqsUpTo(BehavioralRelationships, MaxRels),
          targets \in BehavioralTargets :
          args = <<[stated |-> stated, relationships |-> relationships,
                    targets |-> targets]>>
    /\ out = <<>>
    /\ NoPipeline

CallBehavioral ==
    /\ pc = "call_behavioral"
    /\ out' = <<calculate_behavioral_alignment(args[1].stated, args[1].relationships,
                                               args[1].targets)>>
    /\ pc' = "returned"
    /\ UNCHANGED <<api_key, nodes, links, cache, disk, idx, target_alignments,
                   iteration, changes, svcCalls, paid, seeds, args>>

SpecBehavioral == InitBehavioral /\ [][CallBehavioral]_vars

\* the reference formula, term by term
RefPresent(rels) == {k \in 1..Len(rels) : rels[k] # None /\ DOMAIN rels[k] # {}}
RefValence(rel, axis) == IF axis \in DOMAIN rel THEN rel[axis] ELSE 0
\* max(0.1, (|moral| + |order|) / 2), from the valences as given
RefWeight(rel) ==
    Max2(100, RoundDiv(Abs(RefValence(rel, "moral_valence"))
                       + Abs(RefValence(rel, "order_valence")), 2))
RefTargetKnown(rel, targets) ==
    "target_id" \in DOMAIN rel /\ rel.target_id \in DOMAIN targets
\* the moral value, reduced by 0.3 * target good_evil for a harm done to a
\* target of known alignment
RefMoral(rel, targets) ==
    IF "type" \in DOMAIN rel /\ rel.type \in {"killed", "destroyed", "harmed"}
       /\ RefTargetKnown(rel, targets)
    THEN RefValence(rel, "moral_valence")
         - FMul(targets[rel.target_id].final.good_evil, 300)
    ELSE RefValence(rel, "moral_valence")
RefTerm(rel, targets, what) ==
    CASE what = "weight" -> RefWeight(rel)
      [] what = "moral" -> FMul(RefMoral(rel, targets), RefWeight(rel))
      [] what = "order" -> FMul(RefValence(rel, "order_valence"), RefWeight(rel))
RECURSIVE RefTotal(_, _, _, _)
RefTotal(rels, targets, S, what) ==
    IF S = {} THEN 0
    ELSE LET k == CHOOSE k \in S : TRUE
         IN  RefTerm(rels[k], targets, what) + RefTotal(rels, targets, S \ {k}, what)
\* 0.5 * weighted average of an axis; 0 when no relationship is present
RefShift(rels, targets, what) ==
    IF RefPresent(rels) = {} THEN 0
    ELSE FMul(FDiv(RefTotal(rels, targets, RefPresent(rels), what),
                   RefTotal(rels, targets, RefPresent(rels), "weight")), 500)
RefBase(stated) ==
    IF stated = None \/ DOMAIN stated = {} THEN [law_chaos |-> 0, good_evil |-> 0]
    ELSE [law_chaos |-> stated.law_chaos, good_evil |-> stated.good_evil]
RefBehavioral(stated, rels, targets) ==
    IF Len(rels) = 0 THEN RefBase(stated)
    ELSE [law_chaos |-> Max2(-Scale, Min2(Scale, RefBase(stated).law_chaos
                                                 + RefShift(rels, targets, "order"))),
          good_evil |-> Max2(-Scale, Min2(Scale, RefBase(stated).good_evil
                                                 + RefShift(rels, targets, "moral")))]

\* C21: calculate_behavioral_alignment equals the reference formula for
\* every input: base = stated or (0, 0); no relationships give base;
\* otherwise each relationship that is not absent weighs
\* max(0.1, (|moral| + |order|) / 2) of its valences as given, its moral
\* value is reduced by 0.3 * target good_evil only for killed / destroyed /
\* harmed with a target of known alignment, and each axis is
\* clamp(base + 0.5 * weighted average, -1, 1).
BehavioralIsReference ==
    \A k \in 1..Len(out) :
        out[k] = RefBehavioral(args[k].stated, args[k].relationships, args[k].targets)

\* a harm done to a target of known alignment, next to a relationship of
\* another type with the same known target and one weighed at the floor,
\* moved the result off the base without reaching the clamp
BehavioralIsReferenceWitness ==
    /\ pc = "returned"
    /\ LET rels == args[1].relationships
           targets == args[1].targets
       IN  /\ \E i, j \in RefPresent(rels) :
                 /\ rels[i].type \in HarmTypes /\ RefTargetKnown(rels[i], targets)
                 /\ RefMoral(rels[i], targets) # RefValence(rels[i], "moral_valence")
                 /\ rels[j].type \notin HarmTypes /\ RefTargetKnown(rels[j], targets)
                 /\ targets[rels[j].target_id].final.good_evil # 0
           /\ out[1].good_evil # RefBase(args[1].stated).good_evil
           /\ -Scale < out[1].good_evil /\ out[1].good_evil < Scale

(***************************************************************************)
(* The rounds of propagate_alignments                                      *)
(***************************************************************************)
\* the node visited by this step had no alignment and has one after it
NewlyAssigned ==
    /\ NodeGet(nodes[idx], "alignment") = None
    /\ NodeGet(nodes'[idx], "alignment") # None
\* the new assignments of the round, this step's included
RoundAssignments == changes + (IF NewlyAssigned THEN 1 ELSE 0)

\* C22: propagate_alignments runs at most 10 rounds, ends right after the
\* first round that makes no new assignment, and every round that does not
\* end the loop assigns at least one node that had no alignment.  The
\* count of a round is the number of nodes it took from unaligned to
\* aligned; rounds are numbered from 0.
PropagationRounds ==
    [][pc = "propagate" =>
          /\ iteration < 10
          /\ iteration <= Cardinality(Aligned(nodes) \ seeds)
          /\ IF idx < Len(nodes)
             THEN /\ pc' = "propagate" /\ iteration' = iteration
                  /\ changes' = RoundAssignments
             ELSE /\ RoundAssignments = 0 => pc' = "propagated"
                  /\ iteration = 9 => pc' = "propagated"
                  /\ pc' = "propagate" =>
                        /\ RoundAssignments >= 1
                        /\ iteration' = iteration + 1
                        /\ changes' = 0
                        /\ Cardinality(Aligned(nodes') \ seeds) >= iteration']_vars

\* the tenth round assigned a node and ended the loop with a node still
\* unaligned next to an aligned one
PropagationRoundsWitness ==
    /\ pc = "propagated"
    /\ iteration = 9
    /\ changes >= 1
    /\ \E u \in Ids \ Aligned(nodes) : \E v \in Aligned(nodes) : Linked(u, v)

\* a round without a new assignment ended the loop before the tenth
PropagationStopsEarly ==
    pc = "propagated" /\ iteration < 9 => changes = 0

\* C23: propagate_alignments never changes the alignment of a node that
\* has a non-null alignment: a directly classified node keeps its record,
\* and a node that received a propagated record is not reassigned later.
PropagationFrame ==
    [][pc = "propagate" =>
          \A i \in 1..Len(nodes) :
              NodeGet(nodes[i], "alignment") # None =>
                  /\ nodes'[i].alignment = nodes[i].alignment
                  /\ nodes'[i].id = nodes[i].id]_vars

\* after a second round: a directly classified node, with a record unlike
\* the propagated ones, next to a node propagated in the first round, itself
\* next to a node propagated later
PropagationFrameWitness ==
    /\ pc = "propagated"
    /\ iteration >= 1
    /\ \E v \in seeds, u, w \in Ids \ seeds :
          /\ u # w
          /\ Linked(v, u) /\ Linked(u, w) /\ ~Linked(v, w)
          /\ IsPropagated(u) /\ IsPropagated(w)
          /\ AlignmentOf(v).source # "propagated"
          /\ AlignmentOf(v).confidence # AlignmentOf(u).confidence

(***************************************************************************)
(* propagate_alignments called on one graph with its node list in two      *)
(* orders                                                                  *)
(***************************************************************************)
OrderNodes == 4
OrderLinks == 3

RECURSIVE PropagateRound(_, _, _)
\* the node list and the count of changes after the inner loop (lines
\* 442-476) has visited the first k nodes of a round
PropagateRound(ns, ls, k) ==
    IF k = 0 THEN [nodes |-> ns, changes |-> 0]
    ELSE LET before == PropagateRound(ns, ls, k - 1)
             assigned == PropagateOne(before.nodes, ls, k)
         IN  [nodes |-> [before.nodes EXCEPT ![k].alignment = assigned],
              changes |-> IF assigned # before.nodes[k].alignment
                          THEN before.changes + 1 ELSE before.changes]

RECURSIVE PropagateRounds(_, _, _)
\* the node list the outer loop (lines 439-479) leaves, from this round on
PropagateRounds(ns, ls, round) ==
    LET after == PropagateRound(ns, ls, Len(ns))
    IN  IF after.changes = 0 \/ round + 1 >= max_iterations THEN after.nodes
        ELSE PropagateRounds(after.nodes, ls, round + 1)

\* the node list after propagate_alignments(nodes, links)
propagate_alignments(ns, ls) == PropagateRounds(ns, ls, 0)

Reversed(ns) == [i \in 1..Len(ns) |-> ns[Len(ns) + 1 - i]]

InitOrder ==
    /\ pc = "call_propagate"
    /\ \E ns \in {[i \in 1..OrderNodes |-> PropNode(i, a[i])] :
                      a \in [1..OrderNodes -> SeedAlignments \cup {Absent}]}
                  \cup {[i \in 1..ChainLen |->
                            PropNode(i, IF i = ChainLen THEN seed ELSE Absent)] :
                        seed \in SeedAlignments},
          ends \in LinkLists(OrderNodes, OrderLinks) :
          LET ls == IF Len(ns) = ChainLen
                    THEN [k \in 1..(ChainLen - 1) |-> InputLink(k, k + 1)]
                    ELSE [k \in 1..Len(ends) |-> InputLink(ends[k][1], ends[k][2])]
          IN  /\ Len(ns) = ChainLen => ends = <<>>
              /\ args = <<[nodes |-> ns, links |-> ls],
                          [nodes |-> Reversed(ns), links |-> ls]>>
    /\ out = <<>>
    /\ NoPipeline

CallPropagate ==
    /\ pc = "call_propagate"
    /\ LET call == args[Len(out) + 1]
       IN  out' = Append(out, propagate_alignments(call.nodes, call.links))
    /\ pc' = IF Len(out) + 1 = Len(args) THEN "returned" ELSE pc
    /\ UNCHANGED <<api_key, nodes, links, cache, disk, idx, target_alignments,
                   iteration, changes, svcCalls, paid, seeds, args>>

SpecOrder == InitOrder /\ [][CallPropagate]_vars

\* the alignment the node of this id has in a node list
AlignmentIn(ns, id) == NodeGet(NodeById(ns, id), "alignment")

\* C24: for a fixed set of links and fixed directly classified nodes, the
\* nodes that end with a propagated alignment and the values they end with
\* are the same for every order of the node list.
PropagationOrderIndependent ==
    \A j, k \in 1..Len(out) :
        /\ {args[j].nodes[i] : i \in 1..Len(args[j].nodes)}
              = {args[k].nodes[i] : i \in 1..Len(args[k].nodes)}
        /\ args[j].links = args[k].links
        => \A i \in 1..Len(out[j]) :
               AlignmentIn(out[k], out[j][i].id) = NodeGet(out[j][i], "alignment")

\* the weaker statement, about which nodes end aligned only
PropagationOrderSameSet ==
    \A j, k \in 1..Len(out) : Aligned(out[j]) = Aligned(out[k])

(***************************************************************************)
(* The relationship pass (stage 2b) on a wiki with more documents: two of  *)
(* them have the same title, and some links have an end that is not a      *)
(* node of the list.  The pass is entered with a key only (line 585); the  *)
(* nodes are as stage 1 leaves them when the service answered for none.    *)
(***************************************************************************)
LinkProfiles ==
    << [title |-> <<"Alaric">>, collectionId |-> "npc",
        content |-> <<"Alaric", "is", "Lawful", "Good", ".", "He", "slew", "Bree">>],
       [title |-> <<"Bree">>, collectionId |-> "npc",
        content |-> <<"Bree", "the", "chaotic", "evil", "witch", "aided", "Alaric">>],
       [title |-> <<"Corwin">>, collectionId |-> "faction",
        content |-> <<"Corwin", "guards", "Alaric", "!", "Corwin", "hunts", "Bree">>],
       [title |-> <<"Edda">>, collectionId |-> "npc", content |-> <<>>],
       [title |-> <<"Dunmere">>, collectionId |-> "place",
        content |-> <<"a", "Lawful", "Good", "town", "where", "Alaric", "was", "born">>],
       [title |-> <<"Bree">>, collectionId |-> "faction",
        content |-> <<"Bree", "is", "a", "guild", "of", "smugglers">>] >>

\* an id that no node of the list has
UnknownId == Len(LinkProfiles) + 1

\* the ends a link can have: mentions and none, an empty source, an
\* ineligible source, the two documents of one title, an unknown end
LinkEnds ==
    {<<1, 2>>, <<1, 6>>, <<2, 1>>, <<3, 2>>, <<2, 5>>, <<4, 1>>, <<5, 1>>,
     <<1, UnknownId>>, <<UnknownId, 1>>}

\* lines 529-568 for one node, the service giving nothing
AfterStageOne(node) ==
    IF ~Eligible(node) THEN [node EXCEPT !.alignment = None]
    ELSE [node EXCEPT !.stated_alignment = extract_stated_alignment(node.content)]

\* a cache file with a relationship of an ineligible source
PlaceCache ==
    [PriorCache EXCEPT !.relationships =
        Put(@, compute_relationship_hash(
                   <<"Dunmere">>, <<"Alaric">>,
                   <<"a", "Lawful", "Good", "town", "where", "Alaric", "was", "born">>),
            [result |-> [type |-> "allied", moral_valence |-> 500,
                         order_valence |-> 500, source_id |-> 7, target_id |-> 9],
             source |-> <<"Dunmere">>, target |-> <<"Alaric">>])]

InitLinks ==
    /\ pc = "classify_links"
    /\ api_key = TRUE
    /\ nodes = [i \in 1..Len(LinkProfiles) |->
                   AfterStageOne(InputNode(i, LinkProfiles[i]))]
    /\ \E ends \in SeqsUpTo(LinkEnds, MaxLinks) \ {<<>>} :
          links = [k \in 1..Len(ends) |-> InputLink(ends[k][1], ends[k][2])]
    /\ disk \in {None, PriorCache, PlaceCache}
    /\ cache = load_cache(disk)
    /\ idx = 1
    /\ target_alignments = <<>>
    /\ iteration = 0
    /\ changes = 0
    /\ svcCalls = 0
    /\ paid = {}
    /\ seeds = {}
    /\ args = <<>>
    /\ out = <<>>

SpecLinks == InitLinks /\ [][ClassifyLink]_vars

\* the conditions under which a link is classified
EndsResolve(link) ==
    /\ \E i \in 1..Len(nodes) : nodes[i].id = link.source
    /\ \E i \in 1..Len(nodes) : nodes[i].id = link.target
SourceEligible(link) ==
    NodeById(nodes, link.source).collectionId \in {"npc", "faction"}
MentionFound(link) ==
    extract_link_context(NodeById(nodes, link.source).content,
                         NodeById(nodes, link.target).title) # None
Classifiable(link) ==
    api_key /\ EndsResolve(link) /\ SourceEligible(link) /\ MentionFound(link)
\* the cache has an entry that a lookup for this link would find
CachedFor(link) ==
    /\ EndsResolve(link) /\ MentionFound(link)
    /\ compute_relationship_hash(
           NodeById(nodes, link.source).title, NodeById(nodes, link.target).title,
           extract_link_context(NodeById(nodes, link.source).content,
                                NodeById(nodes, link.target).title).text)
          \in DOMAIN cache.relationships

\* C25: the relationship classifier is invoked for a link only if the
\* service is configured, both ends are nodes of the list, the source is
\* eligible and the context extractor found a mention of the target; for
\* every other link there is no service call, no use of the cache, and no
\* relationship on the link.
RelationshipOnlyForClassifiable ==
    [][pc = "classify_links" =>
          LET link == links[idx]
          IN  /\ svcCalls' # svcCalls => Classifiable(link)
              /\ links'[idx].relationship # Absent => Classifiable(link)
              /\ ~Classifiable(link) =>
                    /\ links' = links
                    /\ cache' = cache /\ disk' = disk
                    /\ svcCalls' = svcCalls /\ paid' = paid]_vars

\* the pass has left a link of an ineligible source without relationship
\* though the cache has one for it, next to a link it classified
RelationshipOnlyForClassifiableWitness ==
    /\ pc = "collect"
    /\ \E j, k \in 1..Len(links) :
          /\ EndsResolve(links[j]) /\ ~SourceEligible(links[j]) /\ CachedFor(links[j])
          /\ links[j].relationship = Absent
          /\ Classifiable(links[k]) /\ links[k].relationship # Absent
          /\ svcCalls = 1

\* C27: after the relationship pass every link that has a relationship has
\* one whose source_id and target_id are the link's own source and target.
RelationshipIdsAreOwn ==
    pc = "collect" =>
        \A k \in 1..Len(links) :
            links[k].relationship # Absent =>
                /\ RelationshipOf(cache, links[k]).source_id = links[k].source
                /\ RelationshipOf(cache, links[k]).target_id = links[k].target

(***************************************************************************)
(* A pipeline run without a key                                            *)
(***************************************************************************)
\* the node has the record the direct pass gives a stated alignment found
\* in its text, its links having no relationship
ExplicitRecord(i) ==
    LET a == NodeGet(nodes'[i], "alignment")
        e == extract_stated_alignment(nodes[i].content)
    IN  /\ a # None
        /\ a.source = "explicit" /\ a.confidence = Scale /\ a.drift = 0
        /\ a.final = [law_chaos |-> e.law_chaos, good_evil |-> e.good_evil]
        /\ a.stated = a.final /\ a.behavioral = a.final

NoBehavioralSource ==
    [][/\ pc = "behavioral" /\ NodeGet(nodes[idx], "stated_alignment") = None
             => nodes'[idx] = nodes[idx]
       /\ \A i \in 1..Len(nodes) :
             LET a == NodeGet(nodes'[i], "alignment")
             IN  a # None =>
                     /\ a.source \in {"explicit", "llm", "propagated"}
                     /\ a.source = "propagated" <=> a.stated = None]_vars

\* an eligible node without stated alignment, with a classified outgoing
\* relationship, ended the run with a propagated alignment
NoBehavioralSourceWitness ==
    /\ pc = "done"
    /\ \E i \in 1..Len(nodes), k \in 1..Len(links) :
          /\ nodes[i].collectionId \in {"npc", "faction"}
          /\ links[k].source = nodes[i].id
          /\ links[k].relationship # Absent
          /\ IsPropagated(nodes[i].id)

\* the orders in which n nodes can be visited
Orders(n) == {f \in [1..n -> 1..n] : \A i, j \in 1..n : i # j => f[i] # f[j]}

\* the node list as the behavioral pass finds it: the stated alignments
\* are the ones collected for the lookup, and no node has a record
BeforePass ==
    [i \in 1..Len(nodes) |->
        [nodes[i] EXCEPT
            !.alignment = IF Outside(i) THEN None ELSE Absent,
            !.stated_alignment =
                IF nodes[i].id \in DOMAIN target_alignments
                THEN target_alignments[nodes[i].id].final
                ELSE IF Outside(i) THEN Absent ELSE None]]

RECURSIVE PassInOrder(_, _, _)
\* the node list after the loop body ran for the first k nodes of an order
PassInOrder(ns, order, k) ==
    IF k = 0 THEN ns
    ELSE BehavioralOne(PassInOrder(ns, order, k - 1), links, cache,
                       target_alignments, order[k])

\* the record the pass gives a node from what is collected before it: the
\* node's stated alignment, its outgoing relationships and the stated
\* alignments of the targets
RecordFromCollected(i) ==
    LET stated == IF nodes[i].id \in DOMAIN target_alignments
                  THEN target_alignments[nodes[i].id].final ELSE None
        own == {k \in 1..Len(links) :
                   links[k].source = nodes[i].id /\ links[k].relationship # Absent}
    IN  IF Outside(i) THEN None
        ELSE IF stated = None THEN Absent
        ELSE LET rels == NodeRelationships(links, cache, nodes[i].id, Len(links))
                 behavioral == RefBehavioral(stated, rels, target_alignments)
                 final == apply_ceiling_constraint(stated, behavioral)
             IN  [stated |-> [law_chaos |-> stated.law_chaos,
                              good_evil |-> stated.good_evil],
                  behavioral |-> behavioral,
                  final |-> final,
                  confidence |-> IF stated.source = "explicit"
                                 THEN Scale - FMul(calculate_drift(stated, final), 300)
                                 ELSE stated.confidence,
                  drift |-> calculate_drift(stated, final),
                  source |-> stated.source]

\* C29: the record the behavioral pass gives a node depends only on the
\* node's stated alignment, its outgoing relationships and the stated
\* alignments of the targets as collected before the pass, not on the
\* record of any other node; so the pass leaves the same node list in
\* every order of visiting the nodes.
PassOrderIndependent ==
    /\ pc = "behavioral" /\ idx = 1 => nodes = BeforePass
    /\ pc = "cleanup" =>
          /\ \A order \in Orders(Len(nodes)) :
                PassInOrder(BeforePass, order, Len(nodes)) = nodes
          /\ \A i \in 1..Len(nodes) : nodes[i].alignment = RecordFromCollected(i)

\* the pass is over: a node harmed a target whose final score the pass
\* moved away from its stated alignment, and was itself moved
PassOrderIndependentWitness ==
    /\ pc = "cleanup"
    /\ \E i, j \in 1..Len(nodes), k \in 1..Len(links) :
          /\ i # j
          /\ links[k].source = nodes[i].id /\ links[k].target = nodes[j].id
          /\ links[k].relationship # Absent
          /\ RelationshipOf(cache, links[k]).type \in HarmTypes
          /\ NodeGet(nodes[i], "alignment") # None
          /\ NodeGet(nodes[j], "alignment") # None
          /\ nodes[j].alignment.final.good_evil # nodes[j].alignment.stated.good_evil
          /\ nodes[i].alignment.behavioral # nodes[i].alignment.stated

(***************************************************************************)
(* classify_entity_llm called on contents longer than the hashed prefix    *)
(*                                                                         *)
(* A content here is a sequence of characters.                             *)
(***************************************************************************)
\* content_hash_chars characters, and contents that have them as prefix,
\* that differ from them in the last character of the prefix, and that end
\* one character before it
PrefixContents ==
    LET body == [i \in 1..content_hash_chars |-> "x"]
    IN  {body, body \o <<"y">>, body \o <<"z", "z">>,
         [body EXCEPT ![content_hash_chars] = "y"],
         SubSeq(body, 1, content_hash_chars - 1)}

PrefixResponses ==
    {[law_chaos |-> 600, good_evil |-> -400, confidence |-> 900], [error |-> "raises"]}

InitPrefix ==
    /\ pc = "prefix_calls"
    /\ api_key \in BOOLEAN
    /\ disk = None
    /\ cache = load_cache(disk)
    /\ nodes = <<>>
    /\ links = <<>>
    /\ idx = 1
    /\ target_alignments = <<>>
    /\ iteration = 0
    /\ changes = 0
    /\ svcCalls = 0
    /\ paid = {}
    /\ seeds = {}
    /\ args = <<>>
    /\ out = <<>>

CallEntityPrefix ==
    /\ pc = "prefix_calls"
    /\ Len(args) < MaxCalls
    /\ \E title \in CallTitles, content \in PrefixContents,
          resp \in PrefixResponses, written \in BOOLEAN :
          Returned([fn |-> "classify_entity_llm", title |-> title, content |-> content],
                   classify_entity_llm(title, content, api_key, cache, resp),
                   resp, written)

SpecPrefix == InitPrefix /\ [][CallEntityPrefix]_vars

\* two contents have the same first 2000 characters
SamePrefix(a, b) ==
    \A i \in 1..2000 :
        /\ (i <= Len(a)) <=> (i <= Len(b))
        /\ i <= Len(a) => a[i] = b[i]

====
